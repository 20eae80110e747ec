# Verification of wgw

wgw (`src/wgw/`) is a Windows/MFC program for a classroom receiver: a box that
collects attendance cards and answer cards by radio and is connected over a COM
port or a CH9326 USB HID bridge. The dialog sends the receiver short commands
(open answers, attendance on, set the clock, ...); the receiver sends frames,
which end as rows of two tables.

This directory holds TLA+ models of the program's own logic, TLC configurations
that check them, and TLAPS proofs. `PROJECT.json` lists components, runs,
mutants, the source lines behind every definition, hazards and theorems.

    user --buttons--> CwgwDlg --addInput--> m_output --> CWorkThread::Run --write--> device
                        |  ^                                  |
                 HIDOpen/  |                                  | read
                 HIDClose  |                                  v
                        |  +--WM_USER_THREADEND-- msgBuffer (addInput, getMsg)
                        v           |
                  m_hand of    getMsgOne --> CDlgCheck, CDlgAnswer, CDlgOther
                  CWorkThread
    TCP peers --> CTcpThread --WM_USER_NEWLINK--> combo box of CwgwDlg
                                                    ^
    EnumSerialPorts, InitSelDev --OnBnClickedLink---+

## 1. Inventory

| Component | State | Operations | What makes it correct | Module |
|---|---|---|---|---|
| `msgBuffer` (common.cpp:78-182) | `m_buf`, `m_len`, `getMsg`'s `ret` | `addInput`, `getMsg`, `getMsgOne`, `getMsgStart`, `processMsg` | every frame posted once, whole and in order, however reads cut it; nothing written or consumed beyond what is there; noise does bounded harm | MsgBuffer |
| `CWorkThread` (WorkThread.cpp) | `m_hand`, `m_output` and three auto-reset events shared with the dialog; `Run`'s handle copy and vector | `open`, `close`, `setHand`, `addInput`, `getInput`, `Run`, `WriteComm*`, `ReadComm*` | no command forgotten, doubled or reordered; no lost wake-up; what a stale copy of the handle can reach is bounded | WorkThread |
| `CDlgCheck` (DlgCheck.cpp) | map id -> `checkItem`, list control | `processMsgCheck`, `insertCheck`, `updateCheck`, `OnWgwClear` | rows and map mirror each other; counts and times agree with the frames received | CheckList |
| `CDlgAnswer` (DlgAnswer.cpp) | vector of `answerItem`, list control | `processMsgAnswer`, `insertAnswer`, `OnWgwClear` | rows, vector and frames received agree, newest on top | AnswerList |
| `CwgwDlg` (wgwDlg.cpp) | `m_commOpened`, `m_openAnswerEd`, `m_checkOn`, `m_comStateStr`, window texts | open/close button, command buttons, `comOpened`, `updateState`, `getMsgOne`, `OnUserThreadend` | button, flag, title and device agree after every way an open can end; the title's text and the number configured are related as `_ttoi` relates them | Dialog; Session |
| `CDlgOther` (DlgOther.cpp) | `m_editOther`, the control's text | `msgAppend`, typing into the control | no line kept is lost from what is shown | Dialog |
| `CTcpThread` (tcpServer.cpp), `OnUsernNewLink` | connections, the messages it posts | `Run`, `listener_cb`, `conn_eventcb` | every connection is announced once, in order | LinkList |
| `OnBnClickedLink`, `InitSelDev` (wgwDlg.cpp:383-452) | the combo box | one scan | the box shows what can be opened, and the peers announced since | LinkList |
| `EnumSerialPorts` (EnumSerial.cpp) | locals: the array, registry keys, SetupDi handles | one enumeration | every port once, with something to show; everything opened is closed | EnumSerial |

How they interact. Two threads matter: the dialog's (all handlers) and
`CWorkThread::Run`. They share `m_hand` and `m_output`, always under `m_mutex`,
and signal each other with auto-reset events. Frames go the other way as posted
window messages, so a frame is handled some time after it was read, possibly
after the device was closed, and possibly in the middle of another handler that
has put up a message box, because a box runs a message loop of its own.

Behaviours that are hard here:

* frames cut anywhere, noise in front of them, types nobody knows, a full buffer;
* `Run` uses a copy of a handle that the dialog may have closed, and whose value
  the system may have given out again for a device of the other kind;
* two auto-reset events waited for together, of which one leads to the queue
  being taken and *not* written (WorkThread.cpp:250);
* a HID write that fails is retried at once and for ever (WorkThread.cpp:256);
* message loops nested in the handlers that open a device;
* rows addressed by an index stored when they were inserted;
* one `msgBuffer` for all sessions: a frame cut off by a close is completed with
  the first bytes of the next device;
* devices found by index in a list that changes during the scan, by a call that
  can fail for any index;
* a speed box that takes any text, of which the device gets the number;
* errors thrown as strings through nested loops that hold registry keys.

## 2. Modules

### MsgBuffer, and the abstract FrameDelivery

State: `m_buf`, `m_len`, `ret` as in the code; `pc` is "scan" inside `getMsg`.
The history variables are the device's `stream`, `pos` (how much of it was handed
to `addInput`) and `posted` (each message with the stream offset of its first
byte). `addInput` is `AddInputOverflow` (common.cpp:166-169: the piece does not
fit, everything pending is dropped with it) or `AddInputAppend`. One turn of
`getMsg`'s loop is `PostMsg` (a whole frame), `DropMsg` (`malloc` or
`PostMessage` failed: the frame is consumed), `GetMsgUnknown` (an unknown type
makes `getMsg` discard the pending bytes) or `GetMsgDone` (nothing to cut off;
the rest is moved to the front). `processMsg` compares and consumes lengths
measured from where the search began, not from the begin byte that was found;
the model does the same, and the noise run and `RepeatedOnlyAfterNoise` are
about the consequences. `Unreceived` stands for memory that never held a
received byte.

`FrameDelivery` is the promise without buffers: bytes arrive, and the frame at
the front is delivered (or, if `Lossy`, lost) once it is complete. `FD` maps
`fed` to `pos`, `at` to the offset of the first byte not consumed, `delivered` to
the messages posted.

### WorkThread, and the abstract CommandQueue

State: the members of `CWorkThread`, `Run`'s locals and program counter, and an
external device layer: what each handle value refers to (`none`, `com`, `hid`,
`gone`), the overlapped reads in flight and their event. Commands are numbers;
history variables record where each one went. The dialog's calls are atomic
where the code holds `m_mutex`. `Run`'s loop is cut at every call that another
thread or the system can come between: `GetHand`, `WaitHand`, `WaitRead`,
`WaitQueue`, `WaitTimeout`, `TakeOnRead`, `TakeOnQueue`, one action per write
attempt and outcome, `WriteDone`, `ReadNothing`, `ReadCommBlock`.

Handle values repeat, so three history variables tell the sessions apart: `copied`
is the session whose pair `Run` copied last, `issuedIn` the session in which a
command was issued and `reached` the one whose device took it. `SessionOf` is the
session a handle value was given out in last.

`CommandQueue` is what a command may expect: accepted (or refused) when issued,
written once and in order; a `Lossy` queue may give up its oldest commands.
`CQ` maps `pending` to `output \o m_output` and `Lossy` to "there are COM
devices": a COM write that fails is reported as written (WorkThread.cpp:211-228),
and only a COM device signals the read event that makes `Run` take the queue
without writing it.

### CheckList

`m_checkMap` and `m_listCheck` (the rows, with the columns the code fills),
`now`, and `log`, the frames since the last clear. `processMsgCheck` is
`InsertCheck`, `InsertFails` (the list control returns -1), `UpdateCheck` or
`IgnoreCheck` (same second as the last time). `touched` follows the code's
order of tests: the first counted frame of a known card sets the first time, a
later one the last time. The check code is the sum of signed bytes, compared
with one signed byte, as in DlgCheck.cpp:99-121.

### AnswerList

`m_answerVec` and `m_listAnswer`, newest first, and `log`. `Letters` reads half
bytes until the first that is no letter, as the loop of DlgAnswer.cpp:130-140.
`updateAnswer` has no caller and is left out. `Shown` and `Place` are not code:
they say which answers found a row, and how many came after one of them.

### Dialog

The two flags, the title, the button's text, the handles held, the pane of other
messages, and `step`, the handler on the stack where it waits: `configure` inside
`open` between the handle and `setHand`, `openBox` in the box of a failed open,
`notOpenBox` in the box of `comOpened`. `CwgwDlg::OnBnClickedOpen`, `HIDOpen` and
`CWorkThread::open` are cut at these points. A handle held is a record of its
kind, the text of the speed box, the number asked for and the rate configured. The
text and the number are different values: `ttoi` is what `_ttoi` makes of a text
(wgwDlg.cpp:503), which for the box's thirteen texts (`ComboBox`) is the number they
mean and for typed ones any number, while the title shows the text (521).
`HIDSpeed` is the table of common.cpp:9, so a number it does not know is configured
as 9600. `OnUserThreadend` is enabled in the boxes as well as in
the main loop; the buttons are not, since a box disables its owner. Frames are
types only; what an answer or check frame does to its table is in AnswerList and
CheckList. Frames may be posted once `setHand` was called, also after a close,
because `Run` keeps the handle and a read may end late.

### Session

The composition for the receiving side, over two sessions: MsgBuffer (by
INSTANCE, with its variables), `Run`'s read path (`GetHand`, `Read`, `AddInput`,
`Scan`), the handle `open` publishes and `close` shuts, and the dialog's open
button, dispatch, flags and title. Each message `PostMsg` appends to `posted` is
the one `OnUserThreadend` dispatches. `device` says which session a handle value
belongs to, so a value given out again makes a late read get bytes of the new
session. Payloads are any bytes, begin
bytes included. The stream has a `seam`, where the second session begins or where a COM
read pended and its bytes went to a stack buffer that is gone. Its `cuts` are the
offsets where frames begin and end; `Whole` are the frames sent whole and `Torn` the
one the seam cuts off, if it does. `Plain` says that behind a torn frame begin bytes
stand only where frames begin. `lostTo` records what `getMsg` and an overflow
discarded. `m_editOther` is the pane as in Dialog.

`DLG` maps Session to Dialog (one COM speed, no commands): what Dialog assumes of
the thread and of the buffer, that frames come only after `setHand` and in the
order they were posted, is what the composed program does.

What the model showed, before the properties were put as they are:

* A frame cut off by a close takes the first bytes of the next session's frames
  with it. If what is left over of those is shorter than a frame, the buffer is in
  step again at the next begin byte; if it is longer than the next frame, that one
  is lost too, because lengths are measured from where the search began.
* Cut after one byte, the receiver id of the next session's first frame stands
  where the type is expected and acts as one.
* Cut after two, the type is the next begin byte, which no switch knows, and
  everything pending is discarded.
* Out of step behind a torn frame, `getMsg` takes a begin byte in a payload for a
  frame's first and may post what follows as a message; so what is promised behind
  the seam, but for the one message that joins both sides, is promised where the
  stream is `Plain`. Where no frame is cut off a payload's bytes change nothing.

### LinkList

The combo box as a bag of names; `listener_cb` and `conn_eventcb` on one side, the
scan on the other, which is cut at every call that sees the system's device list:
`GetDevicePath`, `CreateFile`. `GetDevicePathFails` is a FALSE of
CH9326GetDevicePath for an index that is in the list, after which the loop is left as
at the list's end (wgwDlg.cpp:429). `HidPlugged`, `HidUnplugged` and `HidTaken` may come
between any two. Peers are posted to the window's queue and dispatched between
handlers. `EnumPorts` and `EnumThrows` are the two ways EnumSerial ends.

### EnumSerial

One enumeration, from the version check to the array returned: EnumPortsWNt4 in
one step, EnumPortsWdm device by device, EnumPortsW9x and SearchPnpKeyW9x key by
key, with every key opened in `keys`, and the loop that names what was found.
`NoDetData` and `NoMemory` are the ways out by the
exception of `new`, which the handlers for CString do not take (`pc = "memory"`).
Strings are sequences of parts, so that a friendly name can end in " (COM3)".
SetupDi's entries have no `strPortName`, although EnumSerial.h:38 documents one for
every entry; `Presentable` states what that leads to.

### How the parts fit together

Session composes MsgBuffer with the thread and the dialog, and refines Dialog.
Dialog's `issued` is WorkThread's `AddInput`; ButtonFollowsDevice, with the test
in `comOpened`, justifies the guard `m_commOpened` there. The frames of CheckList
and AnswerList are those `getMsgOne` dispatches. LinkList's names are what Dialog's
open button opens: a port, a HID path, or anything else, which fails.

## 3. Runs

| Run | Checks | Shows |
|---|---|---|
| MsgBuffer_frames | DeliversFrames, FramesPosted | on streams of frames, cut anywhere into reads, MsgBuffer implements FrameDelivery and posts every complete frame |
| MsgBuffer_noise | Bounds, PendingIsSuffix, Drained, PostedInOrder, RepeatedOnlyAfterNoise | with noise, overflow, unknown types and failures: the ASSERTs at common.cpp:150 and 178 hold, pending bytes are exactly the stream's tail, order is kept, and the one way a frame can be posted twice |
| WorkThread_hid | CommandsKept | with HID devices only nothing is lost |
| WorkThread_mixed | Conserved, NoLostWakeup, StaleCopyBounded, CommandsSettled, HandleAdopted | with both kinds, unplugging and reused handle values: each command is in exactly one place, what a stale copy of the handle can reach; and commands leave the queues in the end and `Run` goes over to every session's handle, unless it retries a dead one for ever |
| CheckList | RowsMirrorMap, TimesFollowCounts, NotOvercounted, LastTimeIsLatest | table, map, counts, times and the frames received agree |
| CheckList_firsttime | FirstTimeIsFirst (violated) | the column headed "first time received" shows the second frame's time |
| AnswerList | RowsMirrorVec, AnswersNewestFirst | rows, vector and answers received agree, newest on top, numbered without gaps |
| Dialog | ButtonFollowsDevice, TitleTells, PaneKeepsFrames, FramesHandled | no way out of an open leaks a handle or leaves button, flag or title wrong, and what the device runs at under which text; frames are dispatched under a box, and the pane keeps them |
| Session | TypeOK, CleanUntilTorn, DamageBounded, LostOnlyBehindTorn, TitleOfSession, DialogAllows, FramesShown | two sessions end to end: nothing goes wrong before a frame is cut off, how far the damage goes after one, whose flags the title shows, and that every whole frame is dispatched |
| LinkList_scan | TypeOK, FirstListed, NotMissed, ScanEnds | the device scan against a list that changes and calls that fail: it ends, and when it can miss a device |
| LinkList_peers | PeersAccounted, BoxAccounted, PeersListed | peers announced while the box is emptied and filled: once each, in order, and in the box in the end |
| EnumSerial | ReleasedOnEveryWay, LastKeyWins, Presentable | every path through the enumerations, any call failing: what is released, which port is reported, what there is to show |

The finding. A card's first frame adds its row and stores no time; the second
counted one stores `firstTime` (DlgCheck.cpp:133). The column is headed
"first time received" (DlgCheck.cpp:46). TLC shows a card seen at seconds 1 and
2 whose "first time received" is 2.

Properties that state a defect's limits rather than its absence:
ReleasedOnEveryWay (an error of the Windows 9x walk leaves one or two keys open,
because its catch block closes variables that the loops shadow), NotMissed and
FirstListed (an unplugging during the scan makes the index skip a device, and a path
that cannot be had ends the scan), TitleTells (a device shown at "115,200" runs at
115), StaleCopyBounded (a command of one session may be written to the next one's
device, and `Run` addresses a device in the other kind's protocol where its handle's
value was given out again), RepeatedOnlyAfterNoise, DamageBounded and
LostOnlyBehindTorn, TitleOfSession (flags of an earlier session speak for a device
that has sent nothing yet).

Each property also has a mutant: a small wrong variant of one definition (kept
beside it in the module, commented "mutant") that TLC must reject.

### Bounds, and why they are enough

* MsgBuffer_frames: frames of real lengths (3, 6, 15, 18), payloads full of begin
  and type bytes, four streams, reads of 0 to 8 bytes, a buffer of 26 bytes, the
  smallest that satisfies the program's condition (a read fits beside an
  incomplete frame: in the program 1024 + 17 < 2048, here 8 + 17 < 26). Every
  cut of every frame occurs, and reads that end several frames.
* MsgBuffer_noise: a buffer of 20 bytes, so that reads of 7 overflow it; noise
  shorter and longer than the frame behind it, a begin byte as noise, an unknown
  type, a frame cut off in the middle.
* WorkThread: two handle values and two sessions (three with HID devices only), so
  that the second has the first's value or another, and the same kind of device or
  the other, while `Run` holds the first's pair; two commands (three with HID devices
  only), one of each session or both of one, in every order and place; at most two
  overlapped reads in flight. What the three invariants say of more sessions is proved.
* CheckList, AnswerList: ids of two bytes instead of ten (only their equality and
  the digit test matter), three seconds, five (four) frames, of two or three
  cards: two packets before the times start, ignored ones after, a clear in
  between, a failing insert anywhere.
* Dialog: a text of the box's list, and two typed ones, "115,200" (read as 115, which
  the rate table does not know) and "abc" (read as 0); every kind of device, all seven
  frame types, three frames, two commands, any number of opens, closes and boxes.
  Flags are switched and switched back.
* Session: a timing frame cut off after each of its bytes, in front of frames of
  two receiver ids (one that is a type, one that is not); a check frame cut off in
  front of a longer one; a COM read that pends in the middle of a check frame. The
  long frames before the seam, the cut-off one among them, are full of begin bytes, and
  where nothing is cut off those behind it too; in `CutAmid` a payload behind a torn
  frame holds one, and a message is posted from amid it.
  Reads of up to 6 bytes, two handle values, a buffer of 70 bytes, which never
  overflows: the proof shows that for every buffer with room for a read and 19 bytes
  more, and in the program a read is 1024 of 2048 (overflow is MsgBuffer_noise's).
  `MaxPosted` limits nothing: it is the number of frames Dialog is told to expect,
  and `PostedAssumption` says that a stream does not hold more.
* LinkList: three devices, so that one can leave before, at and behind the index;
  three connections of one peer, so that one is queued, one shown and one wiped,
  and names repeat.
* EnumSerial: the program's 16 NT4 ports; registries in which two keys name a port,
  keys without port or friendly name, USB and other subkeys, none at all; device
  lists with missing and with empty properties, names with two brackets.

`MaxSent`, `MaxSessions`, `MaxFrames`, `MaxTime`, `MaxCommands`, `MaxLinks` and
`Len(stream)` end behaviours. Deadlock checking is on except in EnumSerial, where
one enumeration ends; elsewhere an empty read, a close, a clear or a button is
always possible.

## 4. Fairness

* MsgBuffer: `WF_vars(GetMsg)`. `getMsg` is a loop in one call of one thread; once
  in it, its next turn is taken. No fairness on the device.
* WorkThread: `WF_vars(Run)`. The system schedules the thread, and its waits have
  timeouts of 10 and 2000 ms. No fairness on the dialog, the device layer or a
  retry: `RetryHid` changes nothing, so the properties say "unless `Run` is stuck
  for good" (`Stuck`: it retries a handle that is not an open HID device). A HID
  device that stays open takes a write in the end; that is the one assumption on
  hardware. The COM write's wait (WorkThread.cpp:213) is taken to end.
* Session: weak fairness on `AddInput \/ Scan` (one call of one thread, as above) and
  on the end of the configuration calls, strong fairness on `OnUserThreadend` (as
  for Dialog). None on the device, on reads or on the user.
* LinkList: weak fairness on the scan's steps (one handler), on `BeginThread` and on
  libevent's delivery of a close; strong fairness on `OnUsernNewLink`, for the
  reason given for Dialog. None on peers, devices or the user.
* EnumSerial: none; it has no liveness property.
* Dialog: `SF_vars(OnUserThreadend)`, because `GetMessage` returns posted messages
  before input, so clicks cannot keep a frame waiting although they disable the
  action again and again; `WF` on the end of the configuration calls, which have
  timeouts. Nothing makes the user close a box, and FramesHandled does not need it.

## 5. Proofs

All are for every value of the constants, under the modules' named ASSUMEs.

MsgBufferProofs
* BoundsInvariant: `Bounds`, TypeOK and AssertsHold, is inductive. `processMsg`
  compares with the bytes left (`Enough`), which is what keeps `ret <= m_len`;
  `Fits` keeps `m_len < m_size`.
* PendingInvariant, DrainedInvariant: each inductive with the bounds.
* OrderInvariant: PostedInOrder is not inductive; `SearchIsAhead` adds that no
  message posted begins behind a begin byte that is still to be searched.
* RepeatedOnlyAfterNoiseHolds by `SearchIsPast`: a message posted lies before the
  place where the search goes on, or behind noise of its own length. That place
  never moves back in the stream, which makes it inductive.
* NothingDiscardedHolds and FrameDeliveryImplemented are proved under the added
  assumption `FramesOnly` (streams of frames; a read fits beside an incomplete
  frame). The invariant is `Framed`: bounds, PendingIsSuffix, and `AtFrame`, that
  the search always starts at the first byte of a frame. `FindsFrame` and
  `CutsFrame` show that `getMsg` then finds that frame and cuts exactly it, which
  gives both the step simulation of FrameDelivery and the absence of discards.

WorkThreadProofs
* TypeInvariant; NoLostWakeupHolds (inductive with the types).
* ConservedHolds by `Ledger`: Conserved itself is not inductive, because it does not
  say that neither vector holds a command twice; if one did, erasing the first
  copy would leave the second behind.
* StaleCopyBoundedHolds by `Newest` and `InOrder`. `Newest`: `m_hand` is the newest
  session's pair; a device is open on no other value than its, and only while the
  dialog believes so; and if `Run` copied the pair in that session, it holds it.
  With it a device that takes a command is the newest session's (`TakenByNewest`).
  `InOrder`: no command was issued, and no device reached, in a later session than
  the newest, which new commands and new writes are appended behind; that a command
  in `output` has been issued is `Ledger`'s.
* LossNeedsComHolds by `HidInv`: as long as no COM device was opened, no read is in
  flight, the read event is not signalled, `Run` is not on the branch that
  overwrites, and its vector is empty wherever it is assigned.
* CommandsKeptHolds: WorkThread implements CommandQueue, action by action, for
  every `Kinds`; with COM devices the steps that lose map to `GiveUp`.

CheckListProofs
* MirrorInvariant: TypeOK and RowsMirrorMap are inductive together; the second
  half of RowsMirrorMap (each row's card has that row's index) is what makes an
  update of one row leave the others right.
* TimesFollowCountsHolds by `Times`, which adds that no stored time lies in the
  future. LastTimeIsLatestHolds by `Latest`, which adds that no logged frame does.
  Both need the clock not to go back.
* NotOvercountedHolds: `FramesGrow` shows that one frame adds one to the
  cardinality of its card's frames of its kind and changes no other.

AnswerListProofs
* RowsMirrorVecHolds: types and RowsMirrorVec are inductive together; that only
  letters are kept of an answer rests on `LettersType` (the minimum in `Letters`
  exists, by the well-founded order of the naturals).
* AnswersNewestFirstHolds: `ReceiveMoves` shows that an answer with a row moves every
  earlier one down by one place, and one without moves none.

DialogProofs
* ButtonFollowsDeviceHolds by `Held`: what each value of `step` says of the handles.
* TitleTellsHolds by `FlagsReported` and `TitleFresh`: while no handler is on the
  stack the title was set after the last change of what it shows. What the device
  runs at follows from the text it was opened with by `ttoiAssumption` and the rate
  table, for every function from texts to numbers that reads the list's as meant.
* PaneKeepsFramesHolds: the lines kept and the control's text change together.

SessionProofs. The steps of `Run` are steps of MsgBuffer (`AddInputStep`,
`ScanStep`), so the module takes MsgBufferProofs by INSTANCE and uses its lemmas. The
argument has five layers, each inductive with those before it:
* `Typed` (TypeOKHolds): the bytes `Run` has read and not handed on are still bytes
  of the stream (`pos + got <= Unfinished`), and outside "top" some handle was
  published. TypeOK alone forgets that a read in flight belongs to the stream's part
  it was begun in.
* `FlagsSaid` and `TitleFresh` (TitleOfSessionHolds): each flag is what the last
  frame of its kind said, counted from the first session on. That the later session
  is never overruled follows because messages are posted by rising offset, so all
  those behind the seam come after all those before it.
* `Where`: getMsg's search stands at a cut not behind the torn frame (`Before`), or
  the seam is behind it for good (`Behind`); and between two calls at most 19 bytes
  are pending. The bound on the pending bytes is what excludes an overflow, and
  neither half of it is inductive alone: how much is pending depends on where the
  search stopped.
* `Shown` = `Sound /\ TornOnce /\ Exact /\ Kept` (CleanUntilTornHolds,
  DamageBoundedHolds, LostOnlyBehindTornHolds): each message has its own frame's
  header, or is the one at the torn frame, or begins behind the seam of a stream that
  is not `Plain`; a message before the torn frame is its frame, after all earlier
  ones; every whole frame behind the search was posted or is excused. Up to the torn
  frame nothing is asked of payloads: the search begins at a cut, so the first begin
  byte found is a frame's own, and one message later it is at the next cut
  (`Finds`, `Found`, `FindsFrame`). Behind it, `Plain` is what makes the next begin
  byte a frame's.
  The three properties speak of finished calls; the layer speaks of the search in
  the middle of one.
* `Counted` (DialogAllowsHolds): a message takes three bytes at least and has a type
  the dialog knows. With it every step of Session is a step of Dialog or leaves
  Dialog's variables alone: the queue and the log of Dialog are `Queue` and `Log`,
  the frames posted split at `handled`.

LinkListProofs
* PeersAccountedHolds by `Announced`, PeersAccounted with the sets taken apart:
  every number in the queue is above those that left it.
* TypeOKHolds by `Typed`: the index is below the number of devices there are while a
  path is held, because the list has no device twice.
* FirstListedHolds and NotMissedHolds by `Searched`. `Sequential`: until the list
  changes, no device before the index can be opened, and the path held is that of the
  device there. `StillAhead`: until an entry at or before the index is unplugged,
  every device that could be opened all the time lies ahead or is the one whose path
  is held. Both properties speak of an idle dialog only and say nothing of a scan
  under way; that a scan in which a path could not be had listed nothing is in
  `Searched` as well.
* BoxAccountedHolds: `HeldAccounts` states the bag name by name (`Held`); it needs
  `Announced`, since a name is only added once per number shown.

EnumSerialProofs
* ReleasedOnEveryWayHolds by `Chain`: at each loop exactly the keys from HKLM\Enum
  down to the loops' own are open; and `Devices` for SetupDi's.
* TypeOKHolds by `Placed`, TypeOK with what each loop needs of those around it, and
  `Counting`, that the array is one.
* LastKeyWinsHolds by `Reporting`: while the walk runs, the array reports exactly the
  keys the loops have behind them (`Walked`). `PutReports` shows that an entry put
  into such an array makes it report one key more, if that key is behind no other;
  the array's ports being distinct is needed to overwrite no more than one.
* PresentableHolds by `Presenting`: entries before `ii` can be shown, those from it on
  are as an enumeration made them. `StrippedText` shows what cutting the port's name
  off a friendly name leaves, from the first place of each bracket. The theorem's
  hypothesis is `Sensible`: names have as many brackets closed as opened, and a port
  that the registry names has a name. Without it the property is false, since a
  friendly name may be anything; MCEnumSerial assumes it of the run's names, so TLC
  evaluates it.

NothingDiscarded, LossNeedsCom and the TypeOKs of WorkThread, CheckList, AnswerList,
Dialog and EnumSerial are proved and not in a run of their own.

Every invariant and action property that a passing run checks is stated by a theorem.
Only model-checked: all liveness (FramesPosted, CommandsSettled, HandleAdopted,
FramesHandled, FramesShown, ScanEnds, PeersListed), which is out of the prover's
reach. FirstTimeIsFirst is false.

## 6. Assumptions of the models

* The clock (`CTime::GetCurrentTime`) does not go back.
* A mutex-protected section is one step. `SetEvent` inside it is part of it.
* `WaitForMultipleObjectsEx` consumes the lowest-numbered signalled event, as
  documented; APC wake-ups (it is alertable, nothing queues APCs) are left out.
* In WorkThread a HID write is taken whole or not at all, and bytes of a read are
  left to MsgBuffer. A COM read that pends leaves its bytes in a stack buffer
  that is gone by then (WorkThread.cpp:145); they do not reach `addInput`.
* The Win32 message queue is not full, except where `PostMessage` may fail in
  MsgBuffer and LinkList.
* Session: a stream is frames back to back, of which only the seam cuts one off
  (`FramesAssumption`); their payloads are any bytes. What DamageBounded and
  LostOnlyBehindTorn say of messages and frames behind a torn one is said of `Plain`
  streams; where a payload there holds a begin byte, all that is said of what lies
  behind the seam is that at most one message joins both sides. A read
  fits beside what can be pending (`BufferAssumption`; 1024 + 19 < 2048 in the
  program). A stream has at most one seam, chosen beforehand. `Run` is not stuck in a write,
  and reads return what is there (ReadIntervalTimeout). What the late write of a
  pended read does to the stack is not modelled.
* Dialog: `_ttoi` reads the texts of the box's list as the numbers they mean, and any
  other text as some natural number (`ttoiAssumption`); a text does not begin like the
  title of a closed device (`SpeedsAssumption`). A typed minus sign, a negative
  number, would be one more number that the rate table does not know.
* LinkList: the machine has finitely many HID devices (`HidsAssumption`);
  CH9326GetDevicePath works for no index behind the list's end.
* EnumSerial: enumerations come to an end (`RegistriesAssumption`,
  `DeviceListsAssumption`); names are `Sensible` for PresentableHolds, and only for
  it. RegEnumKeyEx failing otherwise than with the list's end is taken for
  the end, as the code does. The registry does not change during the walk.
* libevent calls one callback at a time, and reports a close once.

## 7. Not modelled, and why

* `hid.cpp`'s reader thread, `HIDRead`, `HIDWrite`, and what follows the first
  `return` of `HIDOpen`/`HIDClose`: no call of the program reaches them. The same
  holds for `m_ctrlComm` (MSComm) after wgwDlg.cpp:525.
* Tabs, layout, painting, the about box, profile strings, and the text the box
  shows selected after a scan (`SetCurSel`, `SelectString`): no state that another
  component reads.
* `COMOpen`'s search for "COM" in a friendly name, the wait of a COM write that pends
  (WorkThread.cpp:213, over four hours), XON/XOFF: listed as hazards or below what
  the properties tell apart.
* Removal of busy ports in EnumSerialPorts: the one caller asks for all ports
  (wgwDlg.cpp:444). `conn_readcb` reads and drops what a peer sends;
  `CTcpThread::addInput` and `beginServer` have no caller.
* `malloc` returning NULL where the code does not look: the program ends there. What
  becomes of an exception that leaves EnumSerialPorts is the library's affair;
  LinkList leaves the handler and goes on, and a program that ends there does less.
* `mscomm1.*`, `wgw.cpp`: generated. libevent, HID headers, the CH9326 DLL, sqlite3:
  third-party; the CH9326 and Win32 calls appear as the outcomes the code tests.
  These headers are about three quarters of the repository's lines: the share of lines mapped is small because of them, and
  the program's own logic in `common`, `WorkThread`, `Dlg*`, `wgwDlg`, `tcpServer`
  and `EnumSerial` is what the modules cover.
* Program exit: `Run` has no way out of its loop, so the process ends by being
  torn down.

## 8. Plan

Done, in this order: MsgBuffer with FrameDelivery; WorkThread with CommandQueue;
CheckList; AnswerList; Dialog; Session, which composes and refines; LinkList;
EnumSerial; proofs of every safety property the runs check.

Left:
1. A refinement of an abstract attendance sheet (a bag of frames per card) by
   CheckList, and of an answer log by AnswerList.
2. A bound on the damage behind a torn frame in streams that are not `Plain`, by the
   number of begin bytes in the payloads behind the seam.
3. Session with commands: those that outlive their session (WorkThread.cpp:118,
   bounded by StaleCopyBounded in WorkThread) next to the title that does.
