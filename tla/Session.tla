------------------------------- MODULE Session -------------------------------
(***************************************************************************)
(* The receiving side of two sessions: the read path of CWorkThread::Run,  *)
(* the msgBuffer it feeds, and the dialog that opens and closes devices    *)
(* and takes the frames posted.  The buffer is a member of the thread and  *)
(* no open or close touches it, so what a session leaves in it is read     *)
(* together with the next one's bytes.                                     *)
(*                                                                         *)
(* A stream holds the bytes of both sessions.  Its seam is where they stop *)
(* being contiguous: where the second session begins or, in a pended       *)
(* stream, where a COM read pended and its bytes went to ReadCommBlock's   *)
(* stack instead of to addInput.  The seam is chosen beforehand, anywhere, *)
(* so a session can end only where its bytes do.                           *)
(***************************************************************************)
EXTENDS Integers, Sequences

CONSTANTS
    m_size, MaxChunk, Streams, Failures,    \* see MsgBuffer
    Handle,         \* the handle values the system gives out, and reuses
    INVALID,        \* INVALID_HANDLE_VALUE
    MaxPosted       \* at least as many frames as a stream has bytes for

VARIABLES
    m_buf, m_len, pc, ret, stream, pos, posted,     \* see MsgBuffer
    m_hand,         \* the handle open published last
    device,         \* the session whose device a handle value is open on, or 0
    run,            \* where Run is: "top", "read", "add" or "scan"
    COMFile,        \* Run's copy of the handle
    got,            \* bytes in ReadCommCH9326's local buffer
    leg,            \* the part of the stream read next: 1, or 2 behind the seam
    step,           \* the dialog's handler on the stack, where it waits
    opening,        \* the handle open is configuring
    m_commOpened, m_openAnswerEd, m_checkOn, title, \* see Dialog
    m_editOther,    \* the pane's lines, see Dialog
    sessions,       \* sessions begun
    handled,        \* how many of the posted messages were dispatched
    lostTo          \* history: the stream offset getMsg last discarded up to

MB == INSTANCE MsgBuffer

buffer == <<m_buf, m_len, pc, ret, stream, pos, posted>>
reader == <<run, COMFile, got, leg, lostTo>>
hands == <<m_hand, device, sessions>>
flags == <<m_openAnswerEd, m_checkOn, title>>
dialog == <<step, opening, m_commOpened>>
shown == <<handled, m_editOther>>
vars == <<buffer, reader, hands, flags, dialog, shown>>

Speed == "9600"         \* the one text devices are opened with here
NotOpen == "not open"   \* as in Dialog

\* updateState, as in Dialog.
updateState(state) ==
    title' = IF m_commOpened' THEN <<state, m_openAnswerEd', m_checkOn'>> ELSE <<state>>

\* The type byte of a message.
Type(n) == posted[n].msg[3]

\* Where what begins at offset c of a stream ends, a frame or one that was cut off.
NextCut(s, c) == {e \in s.cuts : c < e /\ \A x \in s.cuts : x <= c \/ e <= x}

FrameIn(s, c, e) ==
    c + 3 <= e /\ s.bytes[c + 3] \in MB!MsgTypes /\ e = c + MB!MsgLen[s.bytes[c + 3]]

CutOffIn(s, c, e) ==
    /\ e = s.seam
    /\ c + 3 <= e => s.bytes[c + 3] \in MB!MsgTypes /\ e < c + MB!MsgLen[s.bytes[c + 3]]

\* As in MsgBuffer, whose assumptions these are; reads leave room for the rest of
\* a frame and the header of the next (19 bytes at most).
ASSUME BufferAssumption ==
    /\ m_size \in Nat /\ MaxChunk \in Nat /\ MaxChunk + 19 < m_size
    /\ Failures \in BOOLEAN
    /\ \A s \in Streams : s.bytes \in Seq(MB!Byte) /\ s.cuts \subseteq 0..Len(s.bytes)
\* Streams add two fields to those of MsgBuffer.
ASSUME SeamsAssumption ==
    \A s \in Streams : s.seam \in s.cuts /\ s.pended \in BOOLEAN
\* Frames back to back; only the seam may cut one off.  Payloads are any bytes.
ASSUME FramesAssumption ==
    \A s \in Streams :
        /\ {0, Len(s.bytes)} \subseteq s.cuts
        /\ \A c \in s.cuts \ {Len(s.bytes)} :
              /\ s.bytes[c + 1] = MB!MSG_BEGIN
              /\ \E e \in NextCut(s, c) : FrameIn(s, c, e) \/ CutOffIn(s, c, e)
ASSUME HandlesAssumption == INVALID \notin Handle
ASSUME PostedAssumption ==
    MaxPosted \in Nat /\ \A s \in Streams : Len(s.bytes) <= 3 * MaxPosted

Init ==
    /\ MB!Init
    /\ m_hand = INVALID
    /\ device = [h \in Handle |-> 0]
    /\ run = "top"
    /\ COMFile = INVALID
    /\ got = 0
    /\ leg = 1
    /\ step = "idle"
    /\ opening = INVALID
    /\ m_commOpened = FALSE
    /\ m_openAnswerEd = FALSE
    /\ m_checkOn = FALSE
    /\ title = <<NotOpen>>
    /\ m_editOther = <<>>
    /\ sessions = 0
    /\ handled = 0
    /\ lostTo = 0
-----------------------------------------------------------------------------
(***************************************************************************)
(* The dialog's thread: the open button.                                   *)
(***************************************************************************)
MaxSessions == IF stream.pended THEN 1 ELSE 2

OpenRefused ==
    /\ step = "idle"
    /\ ~ m_commOpened
    /\ m_commOpened' = TRUE
    /\ step' = "openBox"
    /\ UNCHANGED <<buffer, reader, hands, flags, opening, shown>>

OpenDevice(h) ==
    /\ step = "idle"
    /\ ~ m_commOpened
    /\ device[h] = 0
    /\ opening' = h
    /\ m_commOpened' = TRUE
    /\ step' = "configure"
    /\ UNCHANGED <<buffer, reader, hands, flags, shown>>

\* A configured device: setHand, and the second session's bytes come next.
Configured ==
    /\ step = "configure"
    /\ sessions < MaxSessions
    /\ sessions = 1 => pos + got = stream.seam
    /\ sessions' = sessions + 1
    /\ leg' = sessions'
    /\ device' = [device EXCEPT ![opening] = sessions']
    /\ m_hand' = opening
    /\ opening' = INVALID
    /\ step' = "idle"
    /\ UNCHANGED <<buffer, run, COMFile, got, lostTo, m_openAnswerEd, m_checkOn,
                   m_commOpened, shown>>
    /\ updateState(Speed)

NotConfigured ==
    /\ step = "configure"
    /\ opening' = INVALID
    /\ step' = "openBox"
    /\ UNCHANGED <<buffer, reader, hands, flags, m_commOpened, shown>>

OpenBoxClosed ==
    /\ step = "openBox"
    /\ m_commOpened' = FALSE
    /\ step' = "idle"
    /\ UNCHANGED <<buffer, reader, hands, m_openAnswerEd, m_checkOn, opening, shown>>
    /\ updateState(NotOpen)

\* close: neither m_hand nor m_msgBuffer nor the flags are touched.
Close ==
    /\ step = "idle"
    /\ m_commOpened
    /\ device' = [device EXCEPT ![m_hand] = 0]
    /\ m_commOpened' = FALSE
    /\ UNCHANGED <<buffer, reader, m_hand, sessions, m_openAnswerEd, m_checkOn, step,
                   opening, shown>>
    /\ updateState(NotOpen)

\* CDlgOther::msgAppend, for the last of the frames dispatched.
msgAppend == m_editOther' = <<handled'>> \o m_editOther

\* The dialog's getMsgOne on a frame of type t, as far as flags, title and pane go.
getMsgOneQuiet(t) ==                                              \* mutant
    /\ m_openAnswerEd' = IF t \in {1, 2, 3} THEN t # 3 ELSE m_openAnswerEd
    /\ m_checkOn' = IF t \in {4, 5, 6} THEN t # 6 ELSE m_checkOn
    /\ IF t = 7 THEN msgAppend ELSE UNCHANGED m_editOther
    /\ UNCHANGED <<m_commOpened, title>>
getMsgOne(t) ==
    /\ m_openAnswerEd' = IF t \in {1, 2, 3} THEN t # 3 ELSE m_openAnswerEd
    /\ m_checkOn' = IF t \in {4, 5, 6} THEN t # 6 ELSE m_checkOn
    /\ IF t = 7 THEN msgAppend ELSE UNCHANGED m_editOther
    /\ UNCHANGED m_commOpened
    /\ IF <<m_openAnswerEd, m_checkOn>>' = <<m_openAnswerEd, m_checkOn>>
       THEN UNCHANGED title
       ELSE updateState(IF step = "idle" /\ m_commOpened THEN Speed ELSE NotOpen)

\* Mutant: frames are dispatched only while a device is open.
OnUserThreadendOpened ==
    /\ step # "configure"
    /\ m_commOpened
    /\ handled < Len(posted)
    /\ handled' = handled + 1
    /\ getMsgOne(Type(handled'))
    /\ UNCHANGED <<buffer, reader, hands, step, opening>>

\* The oldest posted frame is dispatched, in a box too.
OnUserThreadend ==
    /\ step # "configure"
    /\ handled < Len(posted)
    /\ handled' = handled + 1
    /\ getMsgOne(Type(handled'))
    /\ UNCHANGED <<buffer, reader, hands, step, opening>>
-----------------------------------------------------------------------------
(***************************************************************************)
(* Run's read path.  The waits and writes between GetHand and the read are *)
(* WorkThread's; here they return.                                         *)
(***************************************************************************)
\* Mutant: INVALID_HANDLE_VALUE is not tested for.
GetHandUnchecked ==
    /\ run = "top"
    /\ COMFile' = m_hand
    /\ run' = "read"
    /\ UNCHANGED <<buffer, got, leg, lostTo, hands, flags, dialog, shown>>

GetHand ==
    /\ run = "top"
    /\ COMFile' = m_hand
    /\ run' = IF m_hand = INVALID THEN "top" ELSE "read"
    /\ UNCHANGED <<buffer, got, leg, lostTo, hands, flags, dialog, shown>>

\* Bytes of this part of the stream that were not read.
Unread == (IF leg = 1 THEN stream.seam ELSE Len(stream.bytes)) - pos

\* The device behind COMFile returns k bytes.
Read(k) ==
    /\ run = "read"
    /\ device[COMFile] # 0
    /\ k <= Unread
    /\ got' = k
    /\ run' = "add"
    /\ UNCHANGED <<buffer, COMFile, leg, lostTo, hands, flags, dialog, shown>>

\* A COM read pends: its bytes never reach addInput, which is given none.
ReadPends ==
    /\ run = "read"
    /\ device[COMFile] # 0
    /\ stream.pended
    /\ leg = 1 /\ Unread = 0
    /\ leg' = 2
    /\ got' = 0
    /\ run' = "add"
    /\ UNCHANGED <<buffer, COMFile, lostTo, hands, flags, dialog, shown>>

\* The device is silent, or its handle closed.
ReadNothing ==
    /\ run = "read"
    /\ run' = "top"
    /\ UNCHANGED <<buffer, COMFile, got, leg, lostTo, hands, flags, dialog, shown>>

\* m_msgBuffer.addInput, called with the bytes read, also after a close.
AddInput ==
    /\ run = "add"
    /\ \/ MB!AddInputAppend(got) /\ run' = "scan" /\ UNCHANGED lostTo
       \/ MB!AddInputOverflow(got) /\ run' = "top" /\ lostTo' = pos'
    /\ got' = 0
    /\ UNCHANGED <<COMFile, leg, hands, flags, dialog, shown>>

\* A turn of getMsg; what it discards is recorded.
Scan ==
    /\ run = "scan"
    /\ \/ \E i \in MB!MsgStart(ret) : MB!PostMsg(i) /\ UNCHANGED <<run, lostTo>>
       \/ \E i \in MB!MsgStart(ret) : MB!GetMsgUnknown(i) /\ run' = "top" /\ lostTo' = pos
       \/ MB!GetMsgDone /\ run' = "top" /\ UNCHANGED lostTo
    /\ UNCHANGED <<COMFile, got, leg, hands, flags, dialog, shown>>

Run ==
    \/ GetHand
    \/ \E k \in 1..MaxChunk : Read(k)
    \/ ReadPends \/ ReadNothing
    \/ AddInput \/ Scan

Next ==
    \/ OpenRefused
    \/ \E h \in Handle : OpenDevice(h)
    \/ Configured \/ NotConfigured \/ OpenBoxClosed
    \/ Close
    \/ OnUserThreadend
    \/ Run

\* As for the parts: the thread is scheduled, the configuration calls return, and
\* posted messages come before input.
Spec ==
    /\ Init /\ [][Next]_vars
    /\ WF_vars(AddInput \/ Scan)
    /\ WF_vars(Configured \/ NotConfigured)
    /\ SF_vars(OnUserThreadend)
-----------------------------------------------------------------------------
\* Every variable has its type; Run reads only through a published handle.
TypeOK ==
    /\ MB!TypeOK
    /\ m_hand \in Handle \union {INVALID} /\ COMFile \in Handle \union {INVALID}
    /\ device \in [Handle -> 0..2]
    /\ run \in {"top", "read", "add", "scan"}
    /\ run # "top" => COMFile \in Handle
    /\ pc = "scan" <=> run = "scan"
    /\ got \in 0..MaxChunk /\ leg \in 1..2
    /\ step \in {"idle", "configure", "openBox"}
    /\ opening \in Handle \union {INVALID}
    /\ m_commOpened \in BOOLEAN /\ m_openAnswerEd \in BOOLEAN /\ m_checkOn \in BOOLEAN
    /\ sessions \in 0..2
    /\ handled \in 0..Len(posted)
    /\ m_editOther \in Seq(Nat)
    /\ lostTo \in Nat

\* Where the frame, or cut-off frame, that begins at offset c of the stream ends.
EndOf(c) == CHOOSE e \in NextCut(stream, c) : TRUE

\* The frames sent and received whole, by the offset of their first byte.
Whole == {c \in stream.cuts : /\ c + 3 <= Len(stream.bytes)
                              /\ stream.bytes[c + 3] \in MB!MsgTypes
                              /\ EndOf(c) = c + MB!MsgLen[stream.bytes[c + 3]]}

\* The frame the seam cuts off, if it does.
Torn == {c \in stream.cuts \ Whole : c < stream.seam /\ EndOf(c) = stream.seam}

\* Behind a torn frame only frames begin with a begin byte: getMsg can find them again.
Plain == Torn # {} => \A i \in stream.seam + 1..Len(stream.bytes) :
                          stream.bytes[i] = MB!MSG_BEGIN => i - 1 \in stream.cuts

\* Up to a frame cut off by the seam, and for ever where there is none, the
\* messages posted are the frames sent: each once, in order, byte for byte.  What
\* sessions, closed handles, reused handle values and late reads do to them in
\* between changes nothing (m_msgBuffer is shared by all sessions, common.h:66).
CleanUntilTorn ==
    LET early == {n \in 1..Len(posted) : Torn = {} \/ \A c \in Torn : posted[n].at < c}
    IN \A n \in early :
        /\ posted[n].at \in Whole
        /\ posted[n].msg = SubSeq(stream.bytes, posted[n].at + 1, EndOf(posted[n].at))
        /\ \A c \in Whole : c < posted[n].at => \E k \in 1..n - 1 : posted[k].at = c
        /\ \A k \in early \ {n} : posted[k].at # posted[n].at

\* However the seam cuts, at most one message joins bytes of both sides.
Joins(n) == posted[n].at < stream.seam /\ stream.seam < posted[n].at + Len(posted[n].msg)

\* Behind a torn frame the damage is bounded: at most one message mixes the two
\* sides, every other one begins where a frame does, and the three bytes that say
\* what it is are that frame's own; but where a payload behind the seam holds a
\* begin byte, getMsg may take that for a frame's first, and only there.
DamageBounded ==
    /\ \A a, b \in 1..Len(posted) : Joins(a) /\ Joins(b) => a = b
    /\ \A n \in 1..Len(posted) :
          \/ Joins(n)
          \/ /\ posted[n].at \in Whole
             /\ SubSeq(posted[n].msg, 1, 3) = SubSeq(stream.bytes, posted[n].at + 1,
                                                     posted[n].at + 3)
          \/ ~ Plain /\ stream.seam < posted[n].at

\* A frame that has arrived whole is lost only behind a cut-off one: because its
\* first byte lies in the message that the cut-off frame's header (which may end
\* behind the seam) makes getMsg wait for, because that header made getMsg discard
\* all that was pending, or because a payload behind the seam holds a begin byte.
Excused(c) ==
    /\ c >= stream.seam
    /\ \E t \in Torn :
          \/ ~ Plain
          \/ c < lostTo
          \/ /\ stream.bytes[t + 3] \in MB!MsgTypes
             /\ c < t + MB!MsgLen[stream.bytes[t + 3]]

LostOnlyBehindTorn ==
    run \notin {"scan"} =>
        \A c \in Whole : EndOf(c) <= pos =>
            Excused(c) \/ \E n \in 1..Len(posted) : posted[n].at = c

\* The title of an open device says what the frames dispatched so far last said,
\* of whichever session: those of an earlier session speak for a device that has
\* sent nothing yet, and never overrule one that has, because Run reads the
\* sessions' bytes one after the other (the flags are never reset, wgwDlg.cpp:666).
Said(types, from) == {n \in 1..handled : Type(n) \in types /\ posted[n].at >= from}
On(types, off, from) ==
    \E n \in Said(types, from) : \A k \in Said({off}, from) : k < n

TitleOfSession ==
    (m_commOpened /\ step = "idle") =>
        /\ title[1] = Speed
        /\ \A from \in {0} \union (IF leg = 2 THEN {stream.seam} ELSE {}) :
              /\ Said({1, 2, 3}, from) # {} => title[2] = On({1, 2}, 3, from)
              /\ Said({4, 5, 6}, from) # {} => title[3] = On({4, 5}, 6, from)

\* A whole frame handed to addInput is dispatched or excused, whether its session
\* is still open or not, and even if a box is never closed: again and again there
\* is no other left.
FramesShown ==
    []<>(\A c \in Whole : EndOf(c) <= pos =>
            Excused(c) \/ \E n \in 1..handled : posted[n].at = c)
-----------------------------------------------------------------------------
Opened == m_commOpened /\ step = "idle"

\* What Dialog keeps besides: the state the title tells, the text being opened with,
\* and the device held.
comStateStr == IF Opened THEN Speed ELSE NotOpen
openedWith == IF step = "idle" THEN NotOpen ELSE Speed
Com(rate) == [kind |-> "com", text |-> Speed, speed |-> 9600, rate |-> rate]
devicesHeld ==
    IF Opened THEN <<Com(9600)>> ELSE IF step = "configure" THEN <<Com(0)>> ELSE <<>>

\* What Dialog assumes of the thread and the buffer, they do.
DLG == INSTANCE Dialog WITH
        Speeds <- {Speed}, ttoi <- [s \in {Speed} |-> 9600],
        Kinds <- {"com"}, FrameTypes <- 1..7, Commands <- {},
        MaxFrames <- MaxPosted, MaxCommands <- 0,
        m_comStateStr <- comStateStr,
        otherText <- m_editOther,
        openText <- IF Opened THEN "close" ELSE "open",
        speed <- openedWith,
        held <- devicesHeld,
        handSet <- m_hand # INVALID,
        posted <- [n \in 1..Len(posted) - handled |-> Type(handled + n)],
        log <- [n \in 1..handled |-> Type(n)],
        issued <- <<>>

\* The composed program is one that Dialog allows: frames come only after setHand,
\* are dispatched in the order they were posted, and the title follows them.
DialogAllows == DLG!Init /\ [][DLG!Next]_(DLG!vars)
=============================================================================
