----------------------------- MODULE WorkThread -----------------------------
(***************************************************************************)
(* CWorkThread (WorkThread.cpp, WorkThread.h): the thread between the      *)
(* dialog and the device.  The dialog's thread calls open, close and       *)
(* addInput; Run waits for the read event or the queue event, takes the    *)
(* queued commands, writes them and reads from the device.  The two share  *)
(* m_hand and m_output, each access under m_mutex (one step here), and     *)
(* auto-reset events.                                                      *)
(*                                                                         *)
(* The device layer is external: what the Win32 and CH9326 calls do with a *)
(* handle that is open, unplugged, closed, or closed and given out again.  *)
(***************************************************************************)
EXTENDS Integers, Sequences, FiniteSets

CONSTANTS
    Handle,         \* the handle values the system gives out, and reuses
    INVALID,        \* INVALID_HANDLE_VALUE
    Kinds,          \* the kinds of device there are: a subset of {"com", "hid"}
    MaxSent,        \* bound on the commands the dialog issues
    MaxSessions,    \* bound on the calls of open that succeed
    MaxReads        \* bound on overlapped reads in flight at once

ASSUME HandleAssumption == INVALID \notin Handle
ASSUME KindsAssumption == Kinds \subseteq {"com", "hid"}
ASSUME BoundsAssumption ==
    MaxSent \in Nat /\ MaxSessions \in Nat /\ MaxReads \in Nat

VARIABLES
    m_hand,         \* the handle open left, with its isCH9326 flag
    handEvent,      \* m_handEvent is signalled
    m_output,       \* commands queued by the dialog, by number
    eventEmpty,     \* m_EventEmpty is signalled
    osRead,         \* osRead.hEvent is signalled
    pc,             \* where Run is
    COMFile,        \* Run's copy of the handle ...
    isCH9326,       \* ... and of its flag
    output,         \* Run's vector of commands taken from m_output
    device,         \* what each handle value refers to
    reads,          \* overlapped reads in flight
    m_commOpened,   \* the dialog believes a device is open
    sent,           \* history: commands issued by the dialog
    sessions,       \* history: the devices opened, oldest first
    delivered,      \* history: commands a device took, oldest first
    refused,        \* history: commands addInput had no memory for
    failed,         \* history: commands a COM write failed on
    overwritten,    \* history: commands in output when it was assigned anew
    copied,         \* history: the session whose pair Run copied last, 0 if none
    issuedIn,       \* history: the session in which each command was issued
    reached         \* history: the session whose device took each command delivered

shared == <<m_hand, handEvent, m_output, eventEmpty>>
local == <<pc, COMFile, isCH9326, output>>
world == <<device, reads, osRead>>
origin == <<copied, issuedIn, reached>>
history == <<sent, sessions, delivered, refused, failed, overwritten, origin>>
vars == <<shared, local, world, m_commOpened, history>>

Elements(s) == {s[n] : n \in 1..Len(s)}

Init ==
    /\ m_hand = [hand |-> INVALID, isCH9326 |-> FALSE]
    /\ handEvent = FALSE
    /\ m_output = <<>>
    /\ eventEmpty = FALSE
    /\ osRead = FALSE
    /\ pc = "top"
    /\ COMFile = INVALID
    /\ isCH9326 = FALSE
    /\ output = <<>>
    /\ device = [h \in Handle |-> "none"]
    /\ reads = 0
    /\ m_commOpened = FALSE
    /\ sent = 0
    /\ sessions = <<>>
    /\ delivered = <<>>
    /\ refused = {}
    /\ failed = {}
    /\ overwritten = {}
    /\ copied = 0
    /\ issuedIn = <<>> /\ reached = <<>>
-----------------------------------------------------------------------------
(***************************************************************************)
(* The dialog's thread.                                                    *)
(***************************************************************************)

\* setHand: publish the handle and signal the thread, under m_mutex.
setHand(h, isHid) ==
    /\ m_hand' = [hand |-> h, isCH9326 |-> isHid]
    /\ handEvent' = TRUE

\* open succeeds on a device of kind k; the system picks a free handle value.
\* (When it fails nothing of this state changes.)
Open(h, k) ==
    /\ ~ m_commOpened
    /\ Len(sessions) < MaxSessions
    /\ device[h] = "none"
    /\ device' = [device EXCEPT ![h] = k]
    /\ setHand(h, k = "hid")
    /\ m_commOpened' = TRUE
    /\ sessions' = Append(sessions, [hand |-> h, kind |-> k])
    /\ UNCHANGED <<m_output, eventEmpty, local, reads, osRead,
                   sent, delivered, refused, failed, overwritten, origin>>

\* Mutant: the handle is not closed.
CloseLeavesOpen ==
    /\ m_commOpened
    /\ m_commOpened' = FALSE
    /\ UNCHANGED <<shared, local, world, history>>

\* close: the device is closed, m_hand keeps the handle value.  PurgeComm in
\* CloseComm aborts the reads in flight, which signals their event.
Close ==
    /\ m_commOpened
    /\ device' = [device EXCEPT ![m_hand.hand] = "none"]
    /\ IF m_hand.isCH9326 \/ reads = 0
       THEN UNCHANGED <<reads, osRead>>
       ELSE reads' = 0 /\ osRead' = TRUE
    /\ m_commOpened' = FALSE
    /\ UNCHANGED <<shared, local, history>>

\* Mutant: the command is queued and the event not set.
AddInputUnsignalled ==
    /\ m_commOpened
    /\ sent < MaxSent
    /\ sent' = sent + 1
    /\ issuedIn' = Append(issuedIn, Len(sessions))
    /\ m_output' = Append(m_output, sent + 1)
    /\ UNCHANGED <<m_hand, handEvent, eventEmpty, local, world, m_commOpened,
                   sessions, delivered, refused, failed, overwritten, copied, reached>>

\* addInput: queue a command and signal, under m_mutex.  comOpened has let the
\* button's handler through.
AddInput ==
    /\ m_commOpened
    /\ sent < MaxSent
    /\ sent' = sent + 1
    /\ issuedIn' = Append(issuedIn, Len(sessions))
    /\ m_output' = Append(m_output, sent + 1)
    /\ eventEmpty' = TRUE
    /\ UNCHANGED <<m_hand, handEvent, local, world, m_commOpened,
                   sessions, delivered, refused, failed, overwritten, copied, reached>>

\* addInput without memory returns false, which sendComMsg ignores.
AddInputRefused ==
    /\ m_commOpened
    /\ sent < MaxSent
    /\ sent' = sent + 1
    /\ issuedIn' = Append(issuedIn, Len(sessions))
    /\ refused' = refused \union {sent + 1}
    /\ UNCHANGED <<shared, local, world, m_commOpened,
                   sessions, delivered, failed, overwritten, copied, reached>>

Dialog ==
    \/ \E h \in Handle, k \in Kinds : Open(h, k)
    \/ Close
    \/ AddInput
    \/ AddInputRefused
-----------------------------------------------------------------------------
(***************************************************************************)
(* The device layer.                                                       *)
(***************************************************************************)

\* The device is pulled out: its handle stays open and every write fails.
Unplug ==
    /\ m_commOpened
    /\ device[m_hand.hand] \in {"com", "hid"}
    /\ device' = [device EXCEPT ![m_hand.hand] = "gone"]
    /\ UNCHANGED <<shared, local, reads, osRead, m_commOpened, history>>

\* An overlapped read ends (bytes, or the 1000 ms timeout) and signals its event.
ReadCompletes ==
    /\ reads > 0
    /\ reads' = reads - 1
    /\ osRead' = TRUE
    /\ UNCHANGED <<shared, local, device, m_commOpened, history>>
-----------------------------------------------------------------------------
(***************************************************************************)
(* Run.                                                                    *)
(***************************************************************************)

\* getHand at the top of the loop.
GetHand ==
    /\ pc = "top"
    /\ COMFile' = m_hand.hand
    /\ isCH9326' = m_hand.isCH9326
    /\ copied' = Len(sessions)
    /\ pc' = IF m_hand.hand = INVALID THEN "noHand" ELSE "wait"
    /\ UNCHANGED <<shared, output, world, m_commOpened, sent, sessions, delivered,
                   refused, failed, overwritten, issuedIn, reached>>

\* WaitForSingleObject(m_handEvent, 2000): signalled, or the timeout.
WaitHand ==
    /\ pc = "noHand"
    /\ handEvent' = FALSE
    /\ pc' = "top"
    /\ UNCHANGED <<m_hand, m_output, eventEmpty, COMFile, isCH9326, output,
                   world, m_commOpened, history>>

\* Mutant: both events are cleared when the first one is signalled.
WaitReadClearsBoth ==
    /\ pc = "wait"
    /\ osRead
    /\ osRead' = FALSE
    /\ eventEmpty' = FALSE
    /\ pc' = "take0"
    /\ UNCHANGED <<m_hand, handEvent, m_output, COMFile, isCH9326, output, device,
                   reads, m_commOpened, history>>

\* WaitForMultipleObjectsEx: of the events signalled the first one is consumed.
WaitRead ==
    /\ pc = "wait"
    /\ osRead
    /\ osRead' = FALSE
    /\ pc' = "take0"
    /\ UNCHANGED <<shared, COMFile, isCH9326, output, device, reads,
                   m_commOpened, history>>

WaitQueue ==
    /\ pc = "wait"
    /\ ~ osRead
    /\ eventEmpty
    /\ eventEmpty' = FALSE
    /\ pc' = "take1"
    /\ UNCHANGED <<m_hand, handEvent, m_output, COMFile, isCH9326, output,
                   world, m_commOpened, history>>

\* Mutant: after the timeout Run waits again at once.
WaitTimeoutAgain ==
    /\ pc = "wait"
    /\ ~ osRead
    /\ ~ eventEmpty
    /\ UNCHANGED vars

\* ... or none within 10 ms.
WaitTimeout ==
    /\ pc = "wait"
    /\ ~ osRead
    /\ ~ eventEmpty
    /\ pc' = "read"
    /\ UNCHANGED <<shared, COMFile, isCH9326, output, world, m_commOpened, history>>

\* Mutant: m_output is copied and not cleared.
getInputUncleared ==
    /\ output' = m_output
    /\ UNCHANGED m_output
    /\ overwritten' = overwritten \union Elements(output)

\* getInput under m_mutex: output is assigned, m_output cleared.
getInput ==
    /\ output' = m_output
    /\ m_output' = <<>>
    /\ overwritten' = overwritten \union Elements(output)

\* The queue is taken on both events, and written on the second one only.
TakeOnRead ==
    /\ pc = "take0"
    /\ getInput
    /\ pc' = "read"
    /\ UNCHANGED <<m_hand, handEvent, eventEmpty, COMFile, isCH9326, world,
                   m_commOpened, sent, sessions, delivered, refused, failed, origin>>

TakeOnQueue ==
    /\ pc = "take1"
    /\ getInput
    /\ pc' = "write"
    /\ UNCHANGED <<m_hand, handEvent, eventEmpty, COMFile, isCH9326, world,
                   m_commOpened, sent, sessions, delivered, refused, failed, origin>>

\* The session in which the system gave the handle value out last.
SessionOf(h) ==
    CHOOSE n \in 1..Len(sessions) :
        /\ sessions[n].hand = h
        /\ \A k \in n + 1..Len(sessions) : sessions[k].hand # h

\* Mutant: output.erase is missing.
WritesUnerased(kind) ==
    /\ device[COMFile] = kind
    /\ delivered' = Append(delivered, Head(output))
    /\ reached' = Append(reached, SessionOf(COMFile))
    /\ UNCHANGED <<output, failed>>

\* WriteCommBlock sent the command's bytes to the device behind COMFile; true
\* for a handle value that is open again as a device of the right kind.
Writes(kind) ==
    /\ device[COMFile] = kind
    /\ delivered' = Append(delivered, Head(output))
    /\ reached' = Append(reached, SessionOf(COMFile))
    /\ output' = Tail(output)
    /\ UNCHANGED failed

\* HID: erased when CH9326WriteData returns true.
WriteHid ==
    /\ pc = "write"
    /\ output # <<>>
    /\ isCH9326
    /\ Writes("hid")
    /\ UNCHANGED <<shared, pc, COMFile, isCH9326, world, m_commOpened,
                   sent, sessions, refused, overwritten, copied, issuedIn>>

\* HID: otherwise the loop starts again with the same command, at once.
RetryHid ==
    /\ pc = "write"
    /\ output # <<>>
    /\ isCH9326
    /\ UNCHANGED vars

\* COM: WriteCommBlock returns TRUE and the command is erased, whether
\* WriteFile worked or failed.
WriteCom ==
    /\ pc = "write"
    /\ output # <<>>
    /\ ~ isCH9326
    /\ Writes("com")
    /\ UNCHANGED <<shared, pc, COMFile, isCH9326, world, m_commOpened,
                   sent, sessions, refused, overwritten, copied, issuedIn>>

WriteComFails ==
    /\ pc = "write"
    /\ output # <<>>
    /\ ~ isCH9326
    /\ failed' = failed \union {Head(output)}
    /\ output' = Tail(output)
    /\ UNCHANGED <<shared, pc, COMFile, isCH9326, world, m_commOpened,
                   sent, sessions, delivered, refused, overwritten, origin>>

WriteDone ==
    /\ pc = "write"
    /\ output = <<>>
    /\ pc' = "read"
    /\ UNCHANGED <<shared, COMFile, isCH9326, output, world, m_commOpened, history>>

\* ReadComm without a read: HID reads do not touch osRead, and on COM
\* WaitCommEvent does not report EV_RXCHAR at once.
ReadNothing ==
    /\ pc = "read"
    /\ pc' = "top"
    /\ UNCHANGED <<shared, COMFile, isCH9326, output, world, m_commOpened, history>>

\* ReadCommBlock: ReadFile clears osRead's event, and ends at once or later.
ReadCommBlock ==
    /\ pc = "read"
    /\ ~ isCH9326
    /\ device[COMFile] = "com"
    /\ \/ osRead' = TRUE /\ UNCHANGED reads
       \/ osRead' = FALSE /\ reads < MaxReads /\ reads' = reads + 1
    /\ pc' = "top"
    /\ UNCHANGED <<shared, COMFile, isCH9326, output, device, m_commOpened, history>>

Run ==
    \/ GetHand \/ WaitHand
    \/ WaitRead \/ WaitQueue \/ WaitTimeout
    \/ TakeOnRead \/ TakeOnQueue
    \/ WriteHid \/ RetryHid \/ WriteCom \/ WriteComFails \/ WriteDone
    \/ ReadNothing \/ ReadCommBlock

Next == Dialog \/ Unplug \/ ReadCompletes \/ Run

\* The system schedules the thread, and a device that stays open takes a
\* command after finitely many retries.
Spec == Init /\ [][Next]_vars /\ WF_vars(Run)
-----------------------------------------------------------------------------
\* Every variable has its type; past the wait Run holds a real handle value.
TypeOK ==
    /\ m_hand \in [hand : Handle \union {INVALID}, isCH9326 : BOOLEAN]
    /\ m_output \in Seq(Nat) /\ output \in Seq(Nat) /\ delivered \in Seq(Nat)
    /\ handEvent \in BOOLEAN /\ eventEmpty \in BOOLEAN /\ osRead \in BOOLEAN
    /\ isCH9326 \in BOOLEAN /\ m_commOpened \in BOOLEAN
    /\ pc \in {"top", "noHand", "wait", "take0", "take1", "write", "read"}
    /\ COMFile \in Handle \union {INVALID}
    /\ pc \notin {"top", "noHand"} => COMFile \in Handle
    /\ m_commOpened => m_hand.hand \in Handle
    /\ device \in [Handle -> {"none", "com", "hid", "gone"}]
    /\ reads \in 0..MaxReads
    /\ sent \in 0..MaxSent
    /\ sessions \in Seq([hand : Handle, kind : Kinds])
    /\ copied \in Nat /\ issuedIn \in Seq(Nat) /\ reached \in Seq(Nat)

\* Where a command the dialog issued may be: queued or in output, written,
\* refused, failed, or overwritten in output.
Places == <<Elements(output \o m_output), Elements(delivered),
            refused, failed, overwritten>>

\* Every command issued is in exactly one of these places: none is forgotten,
\* none is written twice, and a lost one is lost for one reason.
Conserved ==
    /\ UNION Elements(Places) = 1..sent
    /\ \A a, b \in 1..Len(Places) : a # b => Places[a] \intersect Places[b] = {}

\* A queued command always has its event signalled, or Run about to take it:
\* the auto-reset event is never consumed without the queue being taken.
NoLostWakeup == m_output # <<>> => eventEmpty \/ pc = "take1"

\* What a stale copy of the handle can do (getHand, WorkThread.cpp:243).  A device
\* open behind Run's copy is the one of the newest session, whose close comes before
\* any other open.  Run speaks to it in the other kind's protocol only where the
\* handle's value was given out again and Run has not copied the pair since.
\* A command may so reach a later session's device than the one it was issued for,
\* but never an earlier one's, and the devices are reached in the order of sessions.
StaleCopyBounded ==
    /\ COMFile \in Handle /\ device[COMFile] \in {"com", "hid"} =>
          /\ m_commOpened /\ COMFile = m_hand.hand
          /\ device[COMFile] # (IF isCH9326 THEN "hid" ELSE "com") =>
                copied < Len(sessions)
    /\ \A i \in 1..Len(delivered) : issuedIn[delivered[i]] <= reached[i]
    /\ \A i, j \in 1..Len(reached) : i < j => reached[i] <= reached[j]

\* Commands are lost in Run only in a program run that used a COM device: the
\* HID branch of WriteCommBlock and its retry lose nothing by themselves.
LossNeedsCom ==
    overwritten \union failed # {} =>
        \E n \in 1..Len(sessions) : sessions[n].kind = "com"

\* Run retries a HID write on a handle that is closed, unplugged or now names
\* a device of another kind.  Nothing in the loop looks at m_hand again.
Stuck ==
    /\ pc = "write"
    /\ output # <<>>
    /\ isCH9326
    /\ device[COMFile] # "hid"

\* Unless Run is stuck for good, every command issued is in the end written,
\* refused, failed or overwritten: none stays in a queue.
CommandsSettled ==
    \/ <>[]Stuck
    \/ \A i \in 1..MaxSent :
          (sent >= i) ~> (i \in Elements(delivered) \union refused \union failed
                                \union overwritten)

\* Unless Run is stuck for good, it goes over to the handle open published, also
\* where the system gave the previous one's value out again.
HandleAdopted ==
    \/ <>[]Stuck
    \/ (copied < Len(sessions)) ~> (copied = Len(sessions))

\* What a command may expect of Run, with events, handles and vectors hidden.
CQ == INSTANCE CommandQueue WITH
        Lossy <- "com" \in Kinds,
        pending <- output \o m_output

\* Accepted commands reach the devices once and in order; where every device is
\* a HID device none of them is given up (Run, WorkThread.cpp:230).
CommandsKept == CQ!Spec
=============================================================================
