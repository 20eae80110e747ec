------------------------------ MODULE MsgBuffer ------------------------------
(***************************************************************************)
(* msgBuffer (common.cpp, common.h): the reassembly buffer between a       *)
(* device that returns bytes in pieces of any size and the dialog, which   *)
(* is sent one window message per frame.  addInput appends a piece and     *)
(* then getMsg cuts frames off the front until getMsgOne finds none.       *)
(* Only the work thread calls it, so the steps of one call never overlap   *)
(* with another call.                                                      *)
(***************************************************************************)
EXTENDS Integers, Sequences

CONSTANTS
    m_size,     \* bytes allocated for m_buf (2048 in the program)
    MaxChunk,   \* the largest piece a read returns (128 for COM, 1024 for HID)
    Streams,    \* the streams [bytes, cuts] the device may produce
    Failures    \* TRUE when malloc and PostMessage may fail

Byte == 0..255
MSG_BEGIN == 249
Unreceived == -1        \* memory no received byte was ever stored in

\* The message types getMsgOne knows and the length it takes each to have.
MsgTypes == 1..7
\* Mutant: check frames one byte short, as the older reader hid.cpp:146 has it.
MsgLenShortCheck == [t \in MsgTypes |-> IF t = 2 THEN 18 ELSE
                                        IF t = 5 THEN 14 ELSE
                                        IF t = 7 THEN 6 ELSE 3]
MsgLen == [t \in MsgTypes |-> IF t = 2 THEN 18 ELSE
                              IF t = 5 THEN 15 ELSE
                              IF t = 7 THEN 6 ELSE 3]

ASSUME SizeAssumption == m_size \in Nat \ {0} /\ MaxChunk \in Nat
ASSUME FailuresAssumption == Failures \in BOOLEAN
ASSUME StreamsAssumption ==
    \A s \in Streams : s.bytes \in Seq(Byte) /\ s.cuts \subseteq 0..Len(s.bytes)

VARIABLES
    m_buf,      \* the memory, by index
    m_len,      \* how many bytes of it are pending
    pc,         \* "scan" inside getMsg, "idle" outside addInput
    ret,        \* getMsg's local: bytes of m_buf consumed so far
    stream,     \* history: what the device sends, fixed for a behaviour
    pos,        \* history: bytes of it handed to addInput
    posted      \* window messages posted, each with the stream offset it began at

vars == <<m_buf, m_len, pc, ret, stream, pos, posted>>

Index == 0..m_size - 1

\* The stream offset of m_buf[0].
Base == pos - m_len

\* getMsgStart on m_buf + r: the first begin byte, with its type byte received.
\* A set with at most one element; empty where the code returns 0.
MsgStart(r) == {i \in r..m_len - 3 :
                    /\ m_buf[i] = MSG_BEGIN
                    /\ \A j \in r..i - 1 : m_buf[j] # MSG_BEGIN}

\* getMsgOne's switch found a type it knows, and processMsg enough bytes for it.
\* processMsg measures from r, where the search began, not from the begin byte.
EnoughStrict(r, i) == MsgLen[m_buf[i + 2]] < m_len - r            \* mutant

Known(i) == m_buf[i + 2] \in MsgTypes
Enough(r, i) == MsgLen[m_buf[i + 2]] <= m_len - r

\* The bytes processMsg copies from the begin byte on, received or not.
Copy(i) == [n \in 1..MsgLen[m_buf[i + 2]] |->
                IF i + n - 1 \in Index THEN m_buf[i + n - 1] ELSE Unreceived]

Init ==
    /\ m_buf = [i \in Index |-> Unreceived]
    /\ m_len = 0
    /\ pc = "idle"
    /\ ret = 0
    /\ stream \in Streams
    /\ pos = 0
    /\ posted = <<>>

\* The pieces the next read may return; COM reads also return no byte at all.
Chunk == {k \in 0..MaxChunk : pos + k <= Len(stream.bytes)}

\* addInput's test, which never lets the buffer fill up to its last byte.
FitsExactly(k) == m_len + k <= m_size                             \* mutant
Fits(k) == m_len + k < m_size

\* addInput when the piece does not fit: what was pending goes with it.
AddInputOverflow(k) ==
    /\ pc = "idle"
    /\ ~ Fits(k)
    /\ m_len' = 0
    /\ pos' = pos + k
    /\ UNCHANGED <<m_buf, pc, ret, stream, posted>>

\* addInput up to its call of getMsg.
AddInputAppend(k) ==
    /\ pc = "idle"
    /\ Fits(k)
    /\ m_buf' = [i \in Index |-> IF i \in m_len..m_len + k - 1
                                 THEN stream.bytes[pos + (i - m_len) + 1]
                                 ELSE m_buf[i]]
    /\ m_len' = m_len + k
    /\ pos' = pos + k
    /\ ret' = 0
    /\ pc' = "scan"
    /\ UNCHANGED <<stream, posted>>

\* Mutant: only the header of the message is consumed.
PostMsgHeaderOnly(i) ==
    /\ pc = "scan"
    /\ Known(i)
    /\ Enough(ret, i)
    /\ posted' = Append(posted, [at |-> Base + i, msg |-> Copy(i)])
    /\ ret' = ret + 3
    /\ UNCHANGED <<m_buf, m_len, pc, stream, pos>>

\* One turn of getMsg's loop that posts a frame to the dialog.
PostMsg(i) ==
    /\ pc = "scan"
    /\ Known(i)
    /\ Enough(ret, i)
    /\ posted' = Append(posted, [at |-> Base + i, msg |-> Copy(i)])
    /\ ret' = ret + MsgLen[m_buf[i + 2]]
    /\ UNCHANGED <<m_buf, m_len, pc, stream, pos>>

\* The same turn when malloc or PostMessage fails: consumed, never posted.
DropMsg(i) ==
    /\ pc = "scan"
    /\ Failures
    /\ Known(i)
    /\ Enough(ret, i)
    /\ ret' = ret + MsgLen[m_buf[i + 2]]
    /\ UNCHANGED <<m_buf, m_len, pc, stream, pos, posted>>

\* getMsg returns ret; addInput moves the rest of the bytes to the front.
RestUnmoved(n) == m_buf                                           \* mutant
Rest(n) == [i \in Index |-> IF i < m_len - n THEN m_buf[i + n] ELSE m_buf[i]]

\* Mutant: addInput forgets m_len -= len.
GetMsgDoneKeepsLen ==
    /\ pc = "scan"
    /\ \A i \in MsgStart(ret) : Known(i) /\ ~ Enough(ret, i)
    /\ pc' = "idle"
    /\ ret' = 0
    /\ UNCHANGED <<m_buf, m_len, stream, pos, posted>>

GetMsgDone ==
    /\ pc = "scan"
    /\ \A i \in MsgStart(ret) : Known(i) /\ ~ Enough(ret, i)
    /\ m_buf' = Rest(ret)
    /\ m_len' = m_len - ret
    /\ pc' = "idle"
    /\ ret' = 0
    /\ UNCHANGED <<stream, pos, posted>>

\* getMsg meets an unknown type and returns m_len: everything is discarded.
GetMsgUnknown(i) ==
    /\ pc = "scan"
    /\ ~ Known(i)
    /\ m_len' = 0
    /\ pc' = "idle"
    /\ ret' = 0
    /\ UNCHANGED <<m_buf, stream, pos, posted>>

GetMsg ==
    \/ \E i \in MsgStart(ret) : PostMsg(i) \/ DropMsg(i) \/ GetMsgUnknown(i)
    \/ GetMsgDone

Next ==
    \/ \E k \in Chunk : AddInputOverflow(k) \/ AddInputAppend(k)
    \/ GetMsg

\* The work thread runs addInput to its end once it has called it.
Spec == Init /\ [][Next]_vars /\ WF_vars(GetMsg)
-----------------------------------------------------------------------------
\* Every variable has its type; posted messages are a type byte's length long.
TypeOK ==
    /\ m_buf \in [Index -> Byte \union {Unreceived}]
    /\ m_len \in Nat
    /\ pc \in {"idle", "scan"}
    /\ ret \in Nat
    /\ stream \in Streams
    /\ pos \in 0..Len(stream.bytes)
    /\ posted \in Seq([at : Nat, msg : Seq(Byte \union {Unreceived})])

\* The two ASSERTs (common.cpp:150 and 178) and the capacity test of addInput:
\* getMsg never consumes more than is pending, and the buffer is never full.
AssertsHold ==
    /\ ret <= m_len
    /\ m_len <= pos
    /\ m_len < m_size
    /\ pc = "idle" => ret = 0

\* Types and bounds, which keep each other up.
Bounds == TypeOK /\ AssertsHold

\* The pending bytes are the last m_len bytes handed to addInput, in order:
\* append, memmove and the two resets never leave a hole or a stale byte.
PendingIsSuffix ==
    \A i \in 0..m_len - 1 : m_buf[i] = stream.bytes[Base + i + 1]

\* When addInput returns, no frame it could deliver is left behind: only a
\* frame still short of bytes (or no begin byte at all) may be pending.
Drained ==
    pc = "idle" => \A i \in MsgStart(0) :
        m_buf[i + 2] \in MsgTypes /\ m_len < MsgLen[m_buf[i + 2]]

\* A frame is never posted before one that begins earlier in the stream,
\* whatever noise, overflow or discarded bytes lie between them.
PostedInOrder ==
    \A a, b \in 1..Len(posted) : a < b => posted[a].at <= posted[b].at

\* The same bytes are posted twice only when as many bytes as the message is
\* long, none of them a begin byte, lie right before it (the search began that
\* far ahead of the message, and only the message's length was consumed).
RepeatedOnlyAfterNoise ==
    \A a, b \in 1..Len(posted) :
        (a < b /\ posted[a].at = posted[b].at)
            => \A n \in 0..Len(posted[a].msg) - 1 :
                   /\ posted[a].at - n >= 1
                   /\ stream.bytes[posted[a].at - n] # MSG_BEGIN
-----------------------------------------------------------------------------
\* Streams that hold frames back to back and nothing else, and reads that
\* leave room for an incomplete frame (17 bytes at most) in the buffer.
Aligned(s) ==
    /\ {0, Len(s.bytes)} \subseteq s.cuts
    /\ \A c \in s.cuts \ {Len(s.bytes)} :
          /\ c + 3 <= Len(s.bytes)
          /\ s.bytes[c + 1] = MSG_BEGIN
          /\ s.bytes[c + 3] \in MsgTypes
          /\ c + MsgLen[s.bytes[c + 3]] \in s.cuts
          /\ \A e \in s.cuts : e <= c \/ c + MsgLen[s.bytes[c + 3]] <= e

FramesOnly ==
    /\ \A s \in Streams : Aligned(s)
    /\ MaxChunk + 17 < m_size

\* What the dialog is promised, with the buffer hidden (see FrameDelivery).
FD == INSTANCE FrameDelivery WITH
        Lossy <- Failures,
        fed <- pos,
        at <- Base + ret,
        delivered <- [n \in 1..Len(posted) |-> posted[n].msg]

\* On streams of frames every frame is handed to the dialog once, in order,
\* byte for byte; only malloc or PostMessage failing may lose one (processMsg,
\* common.cpp:101).
DeliversFrames == FD!Spec

\* On such streams addInput never takes its overflow path and getMsg never
\* discards pending bytes (common.cpp:166 and 153).
NothingDiscarded ==
    [][/\ \A k \in Chunk : ~ AddInputOverflow(k)
       /\ \A i \in MsgStart(ret) : ~ GetMsgUnknown(i)]_vars

\* Where malloc and PostMessage work, every frame that has arrived whole is
\* eventually posted: none waits in the buffer for bytes of a later frame.
FramesPosted ==
    \A s \in Streams : \A c, e \in s.cuts :
        (stream = s /\ c < e /\ e <= pos)
            ~> \E n \in 1..Len(posted) : posted[n].at = c
=============================================================================
