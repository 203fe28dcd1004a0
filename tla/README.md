# A TLA+ model of medidor_consumo

`peibol` reads an Envi-R electricity meter through a USB serial line, stores the
readings in a sqlite database, shows them on a display and serves TCP clients that ask
for the last reading or for a live feed. This directory holds a TLA+ model of the
program, the TLC instances that check it and the theorems TLAPS proves about it.
Paths such as `peibol.cpp:237` are relative to `src/`.

## 1. The system

One thread runs everything (`applicVFD::run`). It waits in `select()` for the serial
line, at most 4 s; the wait also ends with `EINTR` at each 250 ms display tick and at
SIGTERM. A readable line is read; the bytes are framed, decoded, sent to the fed client
and stored. Only a wait that ends *without* serial data leads to `manage()` of the
server socket, which polls the clients and calls back into `applicVFD`.

| component | state | operations | interacts with |
|---|---|---|---|
| `CServerSocket` | `listenSocket`, the deque `connectedSockets`, `acceptActive`; within `manage()`: `set`, `rc`, `dequeit` | `manage`, `__accept_internal`, `readData`, `sendBytes`, `removeConnection`, `removeAllConnections`, `activateAccept`, `deactivateAccept`, constructor, destructor | kernel sockets; calls `onNewConnection`, `onMessageReceived`, `onConnectionClose` of the application, which call `sendBytes` back |
| `applicVFD` (`peibol.cpp`) | `sSock`, the decoder pointer `m`, `term`, the serial buffer `buf` | `run`, the callbacks, `sigterm_handler` | all others |
| live feed | `m->liveData`, `m->liveDataFd` | set by `CAPTURE DATA START/STOP`, reset by `onConnectionClose`, used by `deco_live_msg` | clients, decoder |
| `CMessage` | one client line, parsed | constructor, `getType`, `getResponse` | callbacks |
| `envi_raw_msg`, framing | `theMsg` | `envi_msg_completo`, `update_msg`, `procesa_msgs` | serial buffer of `run` |
| `envi_raw_msg`, storing | `lastmsg` | `msg`, `deco_live_msg`, `deco_hist_msg`, `getLastRead` | `sqlite_db`, live feed |
| `sqlite_db` | the tables `sensores`, `log`, `log_canal` | `query_db`, `insert_obj` (`OR IGNORE`, `OR REPLACE`), `update_obj`, `select_obj`, `close_db` | sqlite3 |
| `CTimer`, `CClientSocket` | threads, a client socket | linked in, never instantiated | - |
| `CTrace`, `sqlite_excp`, `CCallbackInterface` | trace level | output, exceptions, an interface | - |

What is hard here, and what each component must therefore guarantee:

* **Erasing under an iterator.** A callback inside `manage()`'s scan may fail to send and
  erase the element the scan stands on. No descriptor may leak, stay listed after its
  `close()`, be skipped, or be read when there is nothing to read (the client sockets are
  blocking). The listening socket, the deque and the kernel's table must agree.
* **Stale descriptors.** `liveDataFd` survives across calls while descriptors are closed
  and their numbers reused.
* **A pointer that is not there yet.** `m` is NULL until the first complete serial message.
* **Starvation.** Clients are served only in the meter's pauses; accepting must not starve
  reading nor the reverse; SIGTERM must always end the loop.
* **Crashes between statements.** A reading is two rows written by two transactions, keyed
  by the second alone, on a board whose clock may be set back.
* **Reads that end anywhere.** A message may arrive in any number of pieces.

`PROJECT.json` lists the hazards one by one, with their lines and the properties
that cover them.

## 2. Modules and how they correspond to the code

| module | models | checked by |
|---|---|---|
| `ServerSocket` | `CServerSocket` with an arbitrary application, the clients and the kernel | `MCServerSocket` |
| `LiveFeed` | abstract specification: what the daemon does for its clients, and what it promises | refined by `Peibol` |
| `Peibol` | `run()`, its callbacks and signals; composes `Sock == INSTANCE ServerSocket` | `MCPeibol` |
| `LiveStream` | what one client receives: readings, the parts of blocking sends, the client's window, the display's tick | itself |
| `CommandLine` | `CMessage`: the parse of what `recv()` returned, the answer, the feed | `MCInputs` |
| `SerialFraming` | `buf`, `envi_msg_completo`, `update_msg`, `procesa_msgs` | `MCInputs` |
| `MeterStore` | `deco_live_msg`'s statements on the three tables, crash and restart | `MCMeterStore` |
| `Database` | `sqlite_db`: opening, `query_db`, `insert_obj`, `update_obj`, closing, with every failure of sqlite | `MCDatabase` |
| `Timer` | `CTimer`: the owner, the thread, signals, time | itself |
| `ClientSocket` | `CClientSocket`: several objects in one process and its descriptors | itself |
| `ServerSocketProofs`, `PeibolProofs`, `MeterStoreProofs`, `LiveStreamProofs`, `DatabaseProofs`, `TimerProofs`, `ClientSocketProofs` | theorems about the module of that name; `PeibolProofs` also that `Peibol` implements `LiveFeed` | TLAPS |
| `InputProofs` | theorems about `SerialFraming` and `CommandLine`, the two texts the daemon reads | TLAPS |

**ServerSocket.** `connectedSockets`, `acceptActive`, `fdset` (`set`), `rc` and `dequeit`
are the code's variables; `at` is where the thread is: outside `manage()` (`app`), at the
head of the outer loop (`round`), of the inner loop (`scan`), or destroyed. One action per
turn of a loop: `ManageSelect`, then for each round `AcceptConnection`,
`RejectConnection`, `AcceptFails` or `RoundWithoutAccept`, then `ScanSkip` or one of the
`Read...` actions per turn of the scan. Clients and network act between any two steps, as
they do between two system calls. The kernel is external: an accept queue (`backlog`), the
descriptor table (`peer`: `accept()` takes the *lowest* free number, which is what makes
the deque disordered), and for each client the unread commands (`inbox`) and the state of
the link. A callback may fail its send to the client being read (`ReadDataSendFails`);
between two calls of `manage()` any public method may be called. Positions are 1-based;
position 0 is the slot before `begin()`, where libstdc++ leaves the iterator when it
erases in the front half of a deque by moving the front elements back: the erased
element is still there, its bit clear, and the scan steps over it.

A deque of libstdc++ consists of nodes, of 128 descriptors each; the model takes it to lie
in one. `readData()` and `openedSocket()` are public, but only the class itself calls them,
and a callback sends only to the client being read: that is how `applicVFD` uses the class,
and `UsesSocket` (section 4) proves that the daemon's steps are all of this kind.

**Peibol.** `proc` is where `run()` is: set-up, in `select()`, reading the line,
publishing readings, in `manage()`, at the end, or inside a `send()` that waits: to a
client whose request it answers (`answering`) or to the fed one (`feeding`). In `manage()`
it takes `ServerSocket`'s steps together with the callback's effect on the feed. `m` is a
Boolean: the decoder exists. Steps that dereference NULL or throw out of `run()` are
explicit (`CloseCrashes`, `CommandCrashes`, `ExitCrashes`, `ManageThrows`, `StoreThrows`)
and end in `crashed`. The client sockets are blocking, so any send may have to wait
(`OnRequestBlocks`, `PublishBlocks`). It then stays until the client reads (`ClientReads`,
which also stands for a tick that ends a send of which a part was taken), the tick ends it
with nothing taken (`Tick`: the client is removed), the client resets the link
(`SendFails`), or SIGTERM ends it either way. SIGTERM that comes just before a send does
not keep that send from waiting. A client line is `GET`, `START`, `STOP` or `OTHER`; for
`OTHER`, `CMessage::getType()` runs off its end and `MsgType` allows any result, also "no
type", which stands as well for `GET LAST` with arguments, whose answer is empty. `Faults`
says which system calls may fail: `port` (opening or configuring the line), `select` (an
error that is not `EINTR`), `eintr` (`manage()`'s `select()` interrupted), `store`
(sqlite). A crash may also follow from the code alone.

**LiveFeed** knows no sockets: connected clients, their pending commands, and the one
client that is fed. `Peibol` maps `connected` to the owners of the listed descriptors,
`feed` to the owner of `liveDataFd`. A client is fed only if it asked (or sent a line without
meaning), and commands read together with another are lost. It has two specifications.
`PromisedSpec` is what the comment of `peibol.cpp:269` promises, "Enviar datos a cliente
hasta nueva orden": a feed ends by an order or by the fed client's own departure. `Spec` is
what the code keeps: there is also `LeaveEndsFeed`, any client's departure ends the feed.
The daemon implements `Spec` (`FeedSpec`, checked and proved) and violates `PromisedSpec`
(`FedUntilNewOrder`).

**LiveStream** opens a send of `Peibol`: it is cut into parts, which the kernel takes while
the client's window (`Window`) has room; then the one thread waits inside `send()`. A
signal ends the wait: with some parts taken `send()` answers short, the rest is dropped and
nobody is told; with none it fails and the client is removed. Whether the display's tick
lets a send restart is decided in a library that is not in the repository, so `restarts` is
either. `c_str()` of a string that is gone (`envi_raw_msg.cpp:152`) is whatever the freed
memory holds, as many bytes as come before a NUL: a send of the feed has any number of
parts up to `MaxLen`, or none, and what is in them is not modelled, since nothing relates it
to the reading. A part is therefore known by its send and its place in it. On the other side
`Consume` is one turn of the decoder's loop over the channel groups of a message, which
matches at the beginning of the text only: a group that closes another channel is a
reading and ends the message, a malformed one just ends it. `offered` counts the readings
handed to the database. What becomes of them there, where `OR IGNORE` drops the second of
a second, is `MeterStore`'s; a statement may also throw, which ends the process
(`StoreThrows`).

**CommandLine** takes the line as a sequence of tokens (a word, a separator, the end of the
line), read by `recv()` in any cut, with whatever an earlier message left in the buffer
behind it: the buffer is not terminated. The parse is compared with a grammar that is
stated separately.

**SerialFraming** cuts each message of the stream into five pieces (two halves of each
tag and the body), so that a read may end between messages, in a message or in a tag.
`CutBlock` is one turn of `procesa_msgs()`'s loop: shortest match from the first opening
tag, erased with its tags; `Clear` is `buf.clear()`. A body holds no newline, which
`.` in the expression would not match.

**MeterStore** models a table as a function from its primary key, `INSERT OR IGNORE` as
such, and each statement as a step, between any two of which the process may die
(`Die`, `Restart`), the clock may move either way (`Tick`). `torn` remembers the seconds
whose second row was lost to a death; it constrains nothing.

**Database** is one level below: one statement at a time, prepared, bound parameter by
parameter, executed, finalized, each step free to fail (`PrepareFails`, `BindThrows`,
`ExecuteFails`), the process free to die. A column is its position, a field one of
`v1`..`v6`, of one of the types that `binder()` is specialised for or of another. What a
binder passes on depends on the type (`Passed`): a number arrives, a `char*` arrives with
the NUL that ends it counted as a part of it (`sqlite_db.cpp:150`), a `string` is bound by
the address of `binder()`'s own parameter, which is gone when the statement is executed
(`sqlite_db.cpp:176`), and any other type has no binder and stays NULL without an error
(`BindsNothing`, `sqlite_db.h:259`). The daemon stores numbers only. `get_obj_db_size()`
runs off its end for six fields and may answer anything. `close_db()` leaves `db_status`
at `OPEN`, so a second close goes to sqlite again (`freed twice`).

**Timer** has two processes: `opc` is the line of the owner (`startTimer`,
`cancelTimer`, the destructor, each with its waits), `tpc` that of the thread in `run()`.
They share `endOfTimer`, `thread` and the object itself, without a lock, as in the code.
The last test of `endOfTimer` (`Decide`), the line that is logged after it (`Expire`) and the
callback are steps of their own: a `cancelTimer()` between them is not seen. The callback
may cancel or delete its own timer. `remain` gets 0 or 1, as the missing parentheses at
`CTimer.cpp:98` have it. Two things are assumed: nobody sets the clock back while a timer
runs (`MeterStore`'s clock moves both ways; here `time()` only bounds the loop of
interrupted sleeps), and `run()`, which lacks a `return`, comes back, as it does in the
Makefile's build without optimisation.

**ClientSocket** has several objects, the process's descriptor table and the server's side
of each connection. `clientSocket = 0` means "none" to the code and "standard input" to
the kernel; standard input may also be closed, and then 0 is the first socket's number.
`noticing` is the stack of `onConnectionClose()` calls: another object's whole life may
pass inside one. The application may call `closeConnection()` and `sendBytes()` of an object
inside that object's own callback, when its number may be another's already; `strayed`
remembers that this closed another's socket. It is assumed that an application does not
delete an object there nor call its `manage()`: `manage()` uses its object after the
callback returns, and the code neither guards against it nor forbids it.

## 3. Runs

| run | properties | expected |
|---|---|---|
| `server` | `TypeOK`, `Registered`, `RecvNeverBlocks`, `NothingSkipped`, `ReadyServed`, `BacklogServed` | hold |
| `all_polled` | `AllPolled` | violated |
| `peibol` | `LiveFdConnected`, `FeedSpec`, `TermStops`, `ClientsServed` | hold |
| `reads_forever` | `ReadsForever` | violated |
| `fed_until_new_order` | `FedUntilNewOrder` | violated |
| `live_stream` | `Ordered`, `AllReadings`, `SerialServed` | hold |
| `inputs` | of `SerialFraming`: `BlocksWhole`, `LostOnlyByClear`, `CuttingEnds`; of `CommandLine`: `TypeOK`, `FirstLineDecides`, `AnswerFits`, `FeedObeys` | hold |
| `meter_store` | `TypeOK`, `References`, `SameSensor`, `NoOrphan`, `RowsKept` | hold |
| `every_channel` | `EveryChannelStored` | violated |
| `database` | `NormalIffApplied`, `TablesBeforeUse`, `ClosedOnDelete`, `StatementAsMeant` | hold |
| `timer` | `ObjectOutlivesThread`, `OneThread`, `LateCancelHeeded`, `TimerEnds`, `DestructionEnds` | hold |
| `client_socket` | `HeldOpen`, `NoLeak`, `CloseNoticed` | hold |

Every module but the abstract `LiveFeed` has a `TypeOK` (`TextOK` in `SerialFraming`), and
all of them are theorems. Those of `ServerSocket`, `MeterStore` and `CommandLine` are
checked by a run too.

Bounds:

* `server`: two descriptors and three clients, so that descriptors run out with a request
  pending, numbers are reused out of order, and the deque has elements on both sides of an
  erased one for both branches of `erase()`; one command in flight per client and an accept
  queue of two (10 in the code) keep it at 400 000 states.
* `peibol`: two clients, two descriptors, every fault, one request in the accept queue. A
  client may have two commands in flight, and both clients together two, so that a read may
  take one command or two. Of the lines a client may send, two: `GET`, and `OTHER`, which may
  be taken for any of them, so a fed and an unfed client, a start and a stop all occur.
  Batches of at most one reading (several follow each other). 590 000 states.
* `fed_until_new_order`: the same with `GET`, `START` and `STOP` and no fault, so that the
  counterexample needs neither a line without meaning nor a failing system call.
* `live_stream`: one client, answers and window of two parts, sends of the feed of one to
  three, so that a send may fit, fit in part, or not at all; messages of up to two groups,
  two readings and three sends, so that a send follows a cut one.
* `inputs`: four messages of the meter, read in every possible way; and a client's lines of
  up to three words with none, one or two spaces between them, read in any cut of up to six
  symbols, with four rests of an earlier message behind them. A behaviour follows one of the
  two, since they share nothing.
* `meter_store`: two current transformers and an impulse meter, channels 1 and 2,
  messages of at most two channels, two different seconds.
* `database`: inserts of up to three columns and fields (also when the two numbers differ),
  updates of one, two and six fields, six being the case that the code cannot count; four
  mixes of the types over the first three fields, with and without something that is bound;
  two statements left open.
* `timer`: a time-out of three seconds, so that a signal may come before, within and after
  it. `startTimer()` gives up after 500 naps (`CTimer.cpp:77`); the number of naps is left out.
* `client_socket`: two objects, four descriptors (the two objects', standard input, and
  one that a failed constructor loses), two blocks of data. Deadlock is not checked:
  constructors that fail lose every descriptor in the end, and then nothing can happen.

The four violated properties are sentences of the source's own comments that the code
does not keep; each is a finding in `PROJECT.json`:

* `AllPolled`: `select()` is given the last descriptor of the deque plus one, not the
  largest (`CServerSocket.cpp:85`). After a reconnection the deque may be `<<6, 5>>`, and
  client 6 is not served until the order changes.
* `ReadsForever`: a client that disconnects, or sends `CAPTURE DATA ...`, before the first
  serial message makes the callback write through NULL (`peibol.cpp:270`, `275`, `290`).
* `FedUntilNewOrder`: `onConnectionClose()` does not look at which client left
  (`peibol.cpp:290`). A client that connects and leaves ends the feed of another one, which
  `peibol.cpp:269` promises to feed until a new order.
* `EveryChannelStored`: the second channel stored in a second is dropped
  (`envi_raw_msg.cpp:182`).

`ReadyServed` and `BacklogServed` state what still holds: a client that stays ready *and
within `MaxSock`* is served, unless the process is out of descriptors with a request
pending, in which case `accept()`'s failure abandons every round.

Two more comments or declarations disagree with the code; the models follow the code, and
what it does is stated:

* `CTimer.hpp:15` declares the time-out as `unsigned int millis`. `run()` gives it to
  `sleep()`, in seconds; `CountsSeconds` (section 4) proves that an undisturbed timer waits
  for so many of them.
* `CClientSocket.cpp:163` says "If error, break connection:", but `sendBytes()` throws
  (line 170) before the two lines that would. In `ClientSocket` the socket stays open;
  `CloseNoticed` says that `manage()` closes it, and `NoLeak` that it is not forgotten.

Behaviour that the modules reproduce and that no comment of the source speaks of:

* a client that does not read holds the daemon inside `send()`, also after SIGTERM if the
  signal came before the send; `TermStops` and `ClientsServed` hold only if sends return;
* `buf.clear()` drops the beginning of the message that follows a complete one
  (`peibol.cpp:190`; `LostOnlyByClear` says that nothing else loses one);
* a line that is no command may start or stop the feed of its sender, as `getType()` runs
  off its end (`CMessage.cpp:112`), and a part of a line may be completed by what an earlier
  message left on the stack (`peibol.cpp:259`; `FirstLineDecides`, `AnswerFits` and
  `FeedObeys` read the two together then, and speak of complete lines otherwise);
* `cancelTimer()` is forgotten between `startTimer()` and the first lines of `run()`
  (`CTimer.cpp:96`) and not seen after the last test (`CTimer.cpp:101`; `LateCancelHeeded`
  speaks of those in between); a signal makes the callback come early, because `remain` is
  0 or 1 (`CTimer.cpp:98`); the destructor may call `pthread_join( 0 )` (`CTimer.cpp:45`,
  `JoinNull`);
* the constructor of `CClientSocket` leaves its socket open when it throws;
  `closeConnection()` of an object that has none closes descriptor 0, and inside the
  object's own callback it may close another object's socket;
* `GET LAST` before the first reading answers with members that were never written, and
  `n_ch` is overwritten with the largest channel of the last message, however few it had
  (`envi_raw_msg.cpp:209`, `285`);
* a text is stored with its NUL or from memory that is gone (`sqlite_db.cpp:150`, `176`), a
  field of another type not at all (`sqlite_db.h:259`); the daemon binds numbers only;
* a second `close_db()` closes the connection again, since `db_status` stays `OPEN`.

### Fairness

* `ServerSocket!FairSpec`: weak fairness of `ManageStep`: the application keeps calling
  `manage()`, and one thread runs to the end of each call. No fairness for clients or
  network.
* `Peibol!FairSpec`: weak fairness of `Thread`, the only thread, which is not enabled while
  a send waits for a client that neither reads nor resets the link, and strong fairness of
  `SelectIdle`: while the line is up, the wait ends idle again and again, because the
  meter sends a message every six seconds or so, the wait is 4 s and a tick interrupts
  it every 250 ms. Nothing is assumed once the line hung up: it then is always readable
  and `manage()` is never called again, which is why `ClientsServed` requires the line to
  be up, while `TermStops` does not. No fairness makes a client read or the tick end a
  send; `TermStops` and `ClientsServed` have `SendsReturn` as a premise instead: that no
  send is blocked for ever.
* `SerialFraming!FairFraming`, and `MCInputs!InputsSpec` likewise: weak fairness of the
  cutting loop.
* `LiveStream!FairSpec`: weak fairness of the thread, which is enabled unless it waits in
  `send()`, and of `Tick`, the display's periodic timer, which `setUpTimer()` starts for
  good. Where the tick restarts a send, only the client can end the wait, and
  `SerialServed` assumes that it reads or leaves (`Drains`).
* `Timer!FairSpec`: the owner and the thread are both scheduled, the callback returns,
  and time passes while the thread sleeps.
* `ClientSocket!FairSpec`: `manage()` of every object is called again and again, and
  callbacks return. None for the server, the network or any other call.

## 4. Proofs

`ServerSocketProofs` proves for every set of clients, every finite set of descriptors and
every bound, from the assumptions `ConnsAssumption`, `FdsAssumption` and
`BoundsAssumption` of `ServerSocket` (client descriptors lie above the listening one, as
the kernel gives them out after it):

| theorem | says |
|---|---|
| `TypeCorrect` | `Spec => []TypeOK` |
| `Inductive` | `Spec => []IInv` |
| `NoDescriptorLost` | `Spec => []Registered` |
| `ManageNeverBlocks` | `Spec => []RecvNeverBlocks` |
| `ScanComplete` | `Spec => []NothingSkipped` |
| `LoopsShorten` | `Spec => TurnsShorten` |
| `ReportedAreServed` | `Spec => ReportedServed` |

`TypeOK` is inductive alone; its interesting part is the range of the iterator, which
`IteratorAfterErase` may put one slot before `begin()`. The three others are not.
`IInv == TypeOK /\ Registered /\ Owned /\ Marked` adds
`Owned` (a client owns one descriptor at most and is not queued at the same time: without
it closing one descriptor could change what another one can read) and `Marked` (the
marked descriptors are listed, there are none outside `manage()`, and the listening
socket's bit is clear during the scan). The proof has a lemma per part and a step per
action; the erasures rest on two lemmas about `RemoveAt` of a sequence without
repetitions, and on `ScanErase`, which says that both erasures of the scan happen at the
iterator.

The last two theorems say why `manage()` serves its clients and returns, without fairness.
`LoopsShorten`: every step of `manage()` after `select()` returns, lowers `rc`, ends a scan
or shortens it, and no step of a client or of the network disturbs the two loops. What a
scan has left is counted as the positions up to `end()` plus the bits in `set`, because an
erasure that leaves the iterator where it is shortens the deque, but one that puts it a
slot back only clears a bit; both counts are natural numbers (`TurnsWellFounded`).
`ReportedAreServed`: a bit of `set` is cleared only by reading that client, unless
`accept()` failed. It needs one more invariant, `Rounds`, for the bits that a new round
finds, and `ScanServesAll`, that a scan which reaches `end()` leaves none.

`MeterStoreProofs` proves for every set of sensors and channels, every length of message
and every clock, from `SensorsAssumption` and `ChannelsAssumption`:

| theorem | says |
|---|---|
| `TypeCorrect` | `Spec => []TypeOK` |
| `Inductive` | `Spec => []IInv` |
| `ReferencesHold` | `Spec => []References` |
| `SensorsAgree` | `Spec => []SameSensor` |
| `NoRowAlone` | `Spec => []NoOrphan` |
| `RowsStay` | `Spec => RowsKept` |

`IInv == TypeOK /\ References /\ SameSensor /\ NoOrphan /\ InTurn`. `InTurn` says what the
decoder may rely on between two statements: once past the first, the sensor has its row;
before the channel's row is written, the log row of `ts` is there, and is the message's own
unless that second was already complete or torn. Without it `InsertCanal` could write a
row whose parent is missing, or one of another sensor. The proof takes one statement at a
time; a table only grows (`INSERT OR IGNORE`), so that what held of its rows still does.

`PeibolProofs` proves for every set of clients, every set of descriptors, every bound and
every set of faults:

| theorem | says |
|---|---|
| `FeedConnected` | `Spec => []LiveFdConnected` |
| `UsesSocket` | `Spec => Sock!Spec` |

`FeedConnected` needs `FInv == Deque /\ LiveFdConnected`, the type of the deque besides the
property. The argument is that a step does one of three things: it removes no connection
and leaves the feed alone (`FeedKept`), it turns the feed off, as every removal does through
`onConnectionClose` (`FeedEnded`), or it gives the feed to the descriptor being read
(`FeedGiven`). One lemma about the socket covers all the steps that remove nothing
(`KeepingSteps`), one those that do (`RemovingSteps`). `UsesSocket` shows that every step
of the daemon is a step of `ServerSocket` or leaves it alone. It needs `FInv`, so that
publishing sends to a descriptor, and `SInv` (no `manage()` during set-up, the only time at
which `acceptActive` may be left either way).

Its second part, from `SocketAssumption` as well (the assumptions of `ServerSocket`, which
`INSTANCE` does not bring along):

| theorem | says |
|---|---|
| `SocketInvariant` | `Spec => []SP!IInv` |
| `ImplementsFeed` | `Spec => FeedSpec` |
| `TypeCorrect` | `Spec => []TypeOK` |
| `SocketGuarantees` | `Spec => [](Sock!Registered /\ Sock!RecvNeverBlocks /\ Sock!NothingSkipped)` |
| `SigtermEnds` | `Spec => StopsSoon` |

`SP` is `ServerSocketProofs` instantiated with the daemon's variables, so that its lemmas
can be cited. `SameManage` and `SameOthers` say that the socket's actions in the daemon are
those of `SP`; for `ManageSelect` the step is proved again (`SocketStep`), because
`MaxSock` is a fold, which the prover does not identify across the two instances.
The refinement maps the connected clients to the owners of the listed descriptors and the
fed client to the owner of `liveDataFd`. That the owners are those of the *open*
descriptors is `Registered`, that accepting connects a client who was not connected, and
that closing one descriptor disconnects one client only, is `Owned`, and that the feed's
descriptor is open is `LiveFdConnected`. Then there is a lemma per kind of step:
`AcceptedStep`, `RejectedStep`, `ReceivedStep` (the four callbacks of a received command),
`LeavingStep` (the three ways in which one client leaves), `EndingStep`, and `UnseenStep`
for all the others, which are stutters.

`SocketGuarantees` carries the socket's three properties over to the daemon, whose
callbacks are the ones that erase and send inside the scan. `SigtermEnds` is about `term`:
once it is set, each step of the thread, and whatever ends its wait in a send, takes `run()`
to a later stage (`Stage`), is done with one reading of the batch, brings `manage()` nearer
to its end in the sense of `LoopsShorten`, or begins a send after which one of these
follows; no step of anybody else takes it back. If its sends return, the loop is thus left
after finitely many of its own steps, whatever signals, clients and failures do.

`TimerProofs` proves for every time-out, with signals at any point:

| theorem | says |
|---|---|
| `TypeCorrect` | `Spec => []TypeOK` |
| `Inductive` | `Spec => []IInv` |
| `ObjectStays` | `Spec => []ObjectOutlivesThread` |
| `CountsSeconds` | `Spec => []InSeconds` |
| `NoSecondThread` | `Spec => OneThread` |
| `LateCancellation` | `Spec => LateCancelHeeded` |
| `EndsWhenDue` | `Spec => NoTurnMore` |

The two threads have no lock, so the invariant says what each knows of the other at each
of its lines: `Known` (while the thread lives the owner can tell, so that the destructor
and `startTimer()` wait for it), `Heeded` (a late cancellation stays in `endOfTimer` until
the thread has looked for the last time) and `Slept` (how much of the time-out the turns
of the loop that are over, and the one going on, amount to). `EndsWhenDue` says that a
thread which was cancelled after its reset of `endOfTimer`, or whose time is up, only goes
forward to its exit: each of its steps is a later line of `run()`, each second is one less
to wait, and neither a signal, nor the callback, nor the owner, who cannot start another
thread while it lives (`Known`), makes the loop turn again.

`ClientSocketProofs` proves for any number of objects and descriptors, from
`ClientAssumption`:

| theorem | says |
|---|---|
| `Inductive` | `Spec => []IInv` |
| `NumberIsOwn` | `Spec => []HeldOpen` |
| `NothingLeaks` | `Spec => []NoLeak` |
| `TypeCorrect` | `Spec => []TypeOK` |

`IInv` adds `InsideClosed`, an object inside its callback has no socket, without which
`clientSocket = 0` at the callback's end could forget one, and what the stack of callbacks
is made of. The key is `CloseHarmless`: outside its callback an object's number is 0 or
its own descriptor, so closing it takes nothing from another object. Inside its callback it
may, which `strayed` records and after which `HeldOpen` claims nothing.

`DatabaseProofs` proves for every set of calls, from `CallsAssumption`:

| theorem | says |
|---|---|
| `Inductive` | `Spec => []IInv` |
| `TablesFirst` | `Spec => []TablesBeforeUse` |
| `DeletionCloses` | `Spec => []ClosedOnDelete` |
| `AnswerSurvives` | `Spec => []NormalIffApplied` |
| `TextAndBindsAgree` | `Spec => []StatementAsMeant` |
| `TypeCorrect` | `Spec => []TypeOK` |

`IInv == Tabled /\ Handled /\ Answered /\ BoundSoFar /\ ClosedOnDelete`: the tables made
so far, the statements not finalized (those of binds that threw, and the one in hand),
what the call would answer, and the parameters bound so far, each as its binder does.
`AnswerSurvives` covers every call that binds anything, also those whose fields are not
counted right: a statement that sqlite does not have fails at the first bind.
`TextAndBindsAgree` rests on `BindsOfCounted`, how many binds a call has whose fields can
be counted.

`LiveStreamProofs` proves for sends, windows and messages of any size and any number of
sends, from `LineAssumption` and `BoundsAssumption`:

| theorem | says |
|---|---|
| `Inductive` | `Spec => [](SendInv /\ ReadInv)` |
| `SendsInOrder` | `Spec => []Ordered` |
| `AllOffered` | `Spec => []AllReadings` |
| `TypeCorrect` | `Spec => []TypeOK` |
| `ReturnsToSerial` | `Spec => TurnsShorten` |

`SendInv` says that the client's stream ends with the latest part of the send going on
(`Newest`); `ReadInv` that every reading of the message was handed to the database, is
consumed and on its way there, or is still in the text (`Remaining`). `RemainingOfText`
relates the number of readings of a text to that of its tail. `ReturnsToSerial`: between
two waits for the serial line each step of the thread shortens the message, passes to a
later stage of the reading (publish, send, store, decode) or has less to send; a signal or
the client at most ends the send.

`InputProofs` proves, for a stream of any number of messages (`MessagesAssumption`) and for
any set of lines, rests of earlier messages and size of the buffer (`TextsAssumption`,
`BufLenAssumption`):

| theorem | says |
|---|---|
| `BlocksAreWhole` | `FramingSpec => []BlocksWhole` |
| `OnlyClearLoses` | `FramingSpec => []LostOnlyByClear` |
| `LoopShortens` | `FramingSpec => TurnsShorten` |
| `TextsAreOfTheStream` | `FramingSpec => []TextOK` |
| `CommandTypes` | `Spec => []TypeOK` |
| `FirstLineIsMeant` | `Spec => []FirstLineDecides` |
| `AnswersFit` | `Spec => AnswerFits` |
| `FeedIsObeyed` | `Spec => FeedObeys` |

`FramingInv` says of the framing that `buf` is a contiguous part of the stream
(`BufIsStream`), so that reads may end anywhere; that between reads no complete message
waits in `buf` and the decoded ones all lie before it (`InReading`); that during the
cutting the decoder's copy is what precedes the first whole message, followed by the stream
from some later message on (`InCutting`, `Upto`), so that each turn cuts exactly the next
message; and that every message whose beginning lies before `buf` is decoded or was cut
short by `clear()` (`Accounted`). A remainder of a message in front of the first opening
tag holds a closing tag at most, and the search for the end of a block begins behind the
opening tag: `TextMatch` and `TextCut` say so of every such text.

`CommandInv == TypeOK /\ FirstLineDecides` is inductive because each `recv()` computes the
command anew from the buffer; `AnswerFits` and `FeedObeys` are about its step
(`ReadDataKeeps`). The work is in the lemmas about the parser: `MeaningSays` and
`ParseSays` bring the grammar and `CMessage`'s search for separators to one description of
a line (`Says`), for every sequence of tokens, and `ParseMeaning` and `WholeLine` conclude
that the parse of what was received is that of its first line whenever that line is there
entirely, whatever an earlier message left behind it.

The runs check those conjuncts of the invariants that are properties of their own. Every
invariant and every action property that a passing run checks is a theorem. Only
model-checked, because the prover cannot do it: the liveness properties (`ReadyServed`,
`BacklogServed`, `TermStops`, `ClientsServed`, `SerialServed`, `CuttingEnds`, `TimerEnds`,
`DestructionEnds`, `CloseNoticed`), which rest on fairness, and what the folds compute.
`LoopsShorten`, `SigtermEnds`, `ReturnsToSerial`, `LoopShortens` and `EndsWhenDue` prove
the part of `ReadyServed`, `TermStops`, `SerialServed`, `CuttingEnds`, `TimerEnds` and
`DestructionEnds` that needs no fairness: that the steps taken lead to the end.

## 5. Not modelled

* The contents of answers and lines: `LiveStream` knows their parts and their order,
  `CommandLine` which answer it is.
* The display, traces, exception classes, the callback interface: no state that another
  component depends on.
* `bind()`'s failure, and that it lacks `SO_REUSEADDR`: the process ends before anything
  starts.
* History messages and impulse counts: parsed and thrown away by the code.
* A clock beyond 2038 (`int` seconds, `envi_raw_msg.cpp:163`): keys turn negative, which
  no property tells apart from a clock set back. The memory that `CMessage` does not free.
* `select_obj` and `extractor_col` of `sqlite_db`: templates that are never instantiated,
  so they are not part of the program. The variant under `EN_CPLUS` is not compiled.

`CTimer` and `CClientSocket` are modelled although nothing in the daemon uses them: they are
linked in, and the modules stand for what a caller may rely on. Of `sqlite_db` the daemon
uses `query_db`, `insert_obj` and `update_obj` (`envi_raw_msg.cpp:209`), with `int` and `double`
fields only; what `Database` says of the other types is for other callers.

## 6. Plan

Written: all the modules of section 2. What is left: `LiveStream` with two clients, one fed
and one that asks, so that the parts of a send (`LiveStream`) and the other client's
commands (`Peibol`) meet in one model.
