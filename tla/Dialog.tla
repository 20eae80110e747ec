------------------------------- MODULE Dialog -------------------------------
(***************************************************************************)
(* CwgwDlg (wgwDlg.cpp): the main dialog's session.  The open button opens *)
(* and closes the device, the command buttons queue commands for the work  *)
(* thread, and the frames the work thread posts switch two flags that the  *)
(* title shows, or add a line to the pane of other messages (CDlgOther).   *)
(* MessageBox and AfxMessageBox disable the dialog's buttons but run a     *)
(* message loop of their own: posted frames are dispatched in the middle   *)
(* of the handler that put up the box.                                     *)
(***************************************************************************)
EXTENDS Naturals, Sequences

CONSTANTS
    Speeds,         \* texts of the speed box: chosen from its list, or typed
    ttoi,           \* the number _ttoi makes of such a text
    Kinds,          \* devices: "com", "ch9326", or "hid" of another vendor
    FrameTypes,     \* the types of the frames a receiver sends
    Commands,       \* the type bytes of the five command buttons
    MaxFrames,      \* bound on the frames posted
    MaxCommands     \* bound on the commands issued

\* The texts in the box's list, and the rates CH9326SetRate has codes for; a number
\* that is not among these gets 9600's code.
ComboBox == <<"300", "600", "1200", "2400", "4800", "9600", "14400", "19200", "28800",
              "38400", "57600", "76800", "115200">>
Listed == <<300, 600, 1200, 2400, 4800, 9600, 14400, 19200, 28800, 38400,
            57600, 76800, 115200>>

NotOpen == "not open"   \* the state shown when no device is held

\* The title begins "hid,speed:" when one is.
ASSUME SpeedsAssumption == NotOpen \notin Speeds
\* The box is CBS_DROPDOWN: any text can be typed, and _ttoi takes the number its
\* first digits make, 0 where there are none.  It reads the list's texts as meant.
ASSUME ttoiAssumption ==
    /\ ttoi \in [Speeds -> Nat]
    /\ \A n \in 1..13 : ComboBox[n] \in Speeds => ttoi[ComboBox[n]] = Listed[n]
ASSUME DeviceKindsAssumption == Kinds \subseteq {"com", "ch9326", "hid"}
ASSUME TypesAssumption == FrameTypes \subseteq 1..7
ASSUME LimitsAssumption == MaxFrames \in Nat /\ MaxCommands \in Nat

VARIABLES
    m_commOpened,   \* the flag comOpened tests
    m_openAnswerEd, \* the receiver takes answers, as far as its frames tell
    m_checkOn,      \* the receiver takes attendance, likewise
    m_comStateStr,  \* the title's first part: the speed's text, or NotOpen
    title,          \* the window text: <<state>> or <<state, answers, check>>
    m_editOther,    \* the pane's lines, newest first, by the frames' numbers
    otherText,      \* the pane's window text, likewise
    openText,       \* the open button's text: "open" or "close"
    step,           \* the handler on the stack, where it waits
    speed,          \* OnBnClickedOpen's local, NotOpen outside
    held,           \* the device handles the program holds
    handSet,        \* setHand was called: the work thread has a handle to read
    posted,         \* WM_USER_THREADEND messages in the window's queue
    log,            \* history: types of the frames dispatched
    issued          \* history: commands handed to the work thread

flags == <<m_openAnswerEd, m_checkOn>>
pane == <<m_editOther, otherText>>
queues == <<handSet, posted, log, issued>>
vars == <<m_commOpened, flags, m_comStateStr, title, pane, openText, step, speed, held, queues>>

\* The rate code for a speed.
HIDSpeed(s) ==
    IF \E n \in 1..13 : Listed[n] = s THEN CHOOSE n \in 1..13 : Listed[n] = s ELSE 6

\* What an opened device is configured to: the DCB takes the speed itself, a
\* CH9326 a code, and a device of another vendor is not configured at all.
Rate(k, s) == IF k = "com" THEN s ELSE IF k = "ch9326" THEN HIDSpeed(s) ELSE 0

\* updateState's window text.
Caption(opened, state, answer, check) ==
    IF opened THEN <<state, answer, check>> ELSE <<state>>

updateState ==
    title' = Caption(m_commOpened', m_comStateStr', m_openAnswerEd', m_checkOn')

Init ==
    /\ m_commOpened = FALSE
    /\ m_openAnswerEd = FALSE
    /\ m_checkOn = FALSE
    /\ m_comStateStr = NotOpen
    /\ title = <<NotOpen>>
    /\ m_editOther = <<>>
    /\ otherText = <<>>
    /\ openText = "open"
    /\ step = "idle"
    /\ speed = NotOpen
    /\ held = <<>>
    /\ handSet = FALSE
    /\ posted = <<>>
    /\ log = <<>>
    /\ issued = <<>>
-----------------------------------------------------------------------------
\* What every way out of the session does: the branch of OnBnClickedOpen that
\* closes, and the one for an open that failed.
ShowClosed ==
    /\ m_commOpened' = FALSE
    /\ openText' = "open"
    /\ m_comStateStr' = NotOpen
    /\ step' = "idle"
    /\ speed' = NotOpen
    /\ UNCHANGED <<flags, pane, queues>>
    /\ updateState

\* OnBnClickedOpen while the button reads "close": HIDClose, which closes the
\* device behind the work thread's handle.
CloseClicked ==
    /\ step = "idle"
    /\ openText = "close"
    /\ held' = Tail(held)
    /\ ShowClosed

\* OnBnClickedOpen otherwise: the flag is set before the device is opened.  A
\* port or path that cannot be opened puts up a box ...
OpenRefused(s) ==
    /\ step = "idle"
    /\ openText = "open"
    /\ m_commOpened' = TRUE
    /\ speed' = s
    /\ step' = "openBox"
    /\ UNCHANGED <<flags, m_comStateStr, title, pane, openText, held, queues>>

\* ... and a handle is configured (SetCommState; GetAttributes, SetRate for the
\* vendor's own device, InitThreadData), for the number _ttoi makes of the text.
OpenDevice(s, k) ==
    /\ step = "idle"
    /\ openText = "open"
    /\ m_commOpened' = TRUE
    /\ speed' = s
    /\ held' = Append(held, [kind |-> k, text |-> s, speed |-> ttoi[s], rate |-> 0])
    /\ step' = "configure"
    /\ UNCHANGED <<flags, m_comStateStr, title, pane, openText, queues>>

\* setHand, and the branch of OnBnClickedOpen for an open that worked: the title
\* gets the text, not the number the device was configured for.
Configured ==
    /\ step = "configure"
    /\ m_commOpened' = TRUE
    /\ handSet' = TRUE
    /\ m_comStateStr' = speed
    /\ openText' = "close"
    /\ step' = "idle"
    /\ held' = [held EXCEPT ![1].rate = Rate(held[1].kind, held[1].speed)]
    /\ speed' = NotOpen
    /\ UNCHANGED <<flags, pane, posted, log, issued>>
    /\ updateState

\* Mutant: CH9326CloseDevice is missing.
NotConfiguredLeaks ==
    /\ step = "configure"
    /\ step' = "openBox"
    /\ UNCHANGED <<m_commOpened, flags, m_comStateStr, title, pane, openText, held, speed, queues>>

\* A configuration call failed: the handle is closed and a box put up ...
NotConfigured ==
    /\ step = "configure"
    /\ held' = Tail(held)
    /\ step' = "openBox"
    /\ UNCHANGED <<m_commOpened, flags, m_comStateStr, title, pane, openText, speed, queues>>

\* ... or none, where CH9326GetAttributes failed.
NoAttributes ==
    /\ step = "configure"
    /\ Head(held).kind # "com"
    /\ held' = Tail(held)
    /\ ShowClosed

\* The user closes the box: open returns false, HIDOpen -1.
OpenBoxClosed ==
    /\ step = "openBox"
    /\ UNCHANGED held
    /\ ShowClosed

Opening ==
    \/ \E s \in Speeds : OpenRefused(s) \/ \E k \in Kinds : OpenDevice(s, k)
    \/ Configured \/ NotConfigured \/ NoAttributes \/ OpenBoxClosed
-----------------------------------------------------------------------------
\* A command button: comOpened lets it through, sendComMsg queues its bytes.
CommandClicked(c) ==
    /\ step = "idle"
    /\ m_commOpened
    /\ Len(issued) < MaxCommands
    /\ issued' = Append(issued, c)
    /\ UNCHANGED <<m_commOpened, flags, m_comStateStr, title, pane, openText, step,
                   speed, held, handSet, posted, log>>

\* comOpened says that nothing is open, and updates the title after the box.
CommandRefused ==
    /\ step = "idle"
    /\ ~ m_commOpened
    /\ step' = "notOpenBox"
    /\ UNCHANGED <<m_commOpened, flags, m_comStateStr, title, pane, openText, speed, held, queues>>

NotOpenBoxClosed ==
    /\ step = "notOpenBox"
    /\ step' = "idle"
    /\ UNCHANGED <<m_commOpened, flags, m_comStateStr, pane, openText, speed, held, queues>>
    /\ updateState

\* processMsg of the work thread posts a frame.  It reads from the handle set
\* last, so a read may also end after the device was closed, or while the next
\* one is being opened.
PostMessage(t) ==
    /\ handSet
    /\ Len(log) + Len(posted) < MaxFrames
    /\ posted' = Append(posted, t)
    /\ UNCHANGED <<m_commOpened, flags, m_comStateStr, title, pane, openText, step,
                   speed, held, handSet, log, issued>>

setOpenAnswerEd(v) ==
    /\ m_openAnswerEd' = v
    /\ UNCHANGED <<m_checkOn, m_commOpened, m_comStateStr>>
    /\ IF v = m_openAnswerEd THEN UNCHANGED title ELSE updateState

\* Mutant: the title is left as it is.
setCheckOnQuiet(v) ==
    /\ m_checkOn' = v
    /\ UNCHANGED <<m_openAnswerEd, m_commOpened, m_comStateStr, title>>

setCheckOn(v) ==
    /\ m_checkOn' = v
    /\ UNCHANGED <<m_openAnswerEd, m_commOpened, m_comStateStr>>
    /\ IF v = m_checkOn THEN UNCHANGED title ELSE updateState

\* Mutant: the line is not put into the window.
msgAppendUnseen ==
    /\ m_editOther' = <<Len(log) + 1>> \o m_editOther
    /\ UNCHANGED otherText

\* CDlgOther::msgAppend: a new first line, shown at once.
msgAppend ==
    /\ m_editOther' = <<Len(log) + 1>> \o m_editOther
    /\ otherText' = m_editOther'

\* The user types into the pane's edit control, which is not where the lines are
\* shown: the handler copies the window text back.
OnEnChangeEdit1 ==
    /\ step = "idle"
    /\ m_editOther' = otherText
    /\ UNCHANGED <<m_commOpened, flags, m_comStateStr, title, otherText, openText,
                   step, speed, held, queues>>

\* The dialog's getMsgOne: answers and check frames also fill their tables.
getMsgOne(t) ==
    \/ t \in {1, 2, 3} /\ setOpenAnswerEd(t \in {1, 2}) /\ UNCHANGED pane
    \/ t \in {4, 5, 6} /\ setCheckOn(t \in {4, 5}) /\ UNCHANGED pane
    \/ t = 7 /\ msgAppend /\ UNCHANGED <<flags, m_commOpened, m_comStateStr, title>>

\* Mutant: frames wait until no box is up.
OnUserThreadendIdle ==
    /\ step = "idle"
    /\ posted # <<>>
    /\ getMsgOne(Head(posted))
    /\ log' = Append(log, Head(posted))
    /\ posted' = Tail(posted)
    /\ UNCHANGED <<openText, step, speed, held, handSet, issued>>

\* The oldest posted frame is dispatched, by the main loop or by that of a box.
OnUserThreadend ==
    /\ step # "configure"
    /\ posted # <<>>
    /\ getMsgOne(Head(posted))
    /\ log' = Append(log, Head(posted))
    /\ posted' = Tail(posted)
    /\ UNCHANGED <<openText, step, speed, held, handSet, issued>>

Next ==
    \/ CloseClicked
    \/ Opening
    \/ \E c \in Commands : CommandClicked(c)
    \/ CommandRefused \/ NotOpenBoxClosed
    \/ \E t \in FrameTypes : PostMessage(t)
    \/ OnUserThreadend
    \/ OnEnChangeEdit1

\* The message loop runs and takes posted messages before mouse input, so clicks
\* cannot hold a frame back for ever; the configuration calls of open return.
\* The user need not close a box.
Spec ==
    /\ Init /\ [][Next]_vars
    /\ SF_vars(OnUserThreadend)
    /\ WF_vars(Configured \/ NotConfigured \/ NoAttributes)
-----------------------------------------------------------------------------
\* Every variable has its type, and at most one device is held.
TypeOK ==
    /\ m_commOpened \in BOOLEAN /\ m_openAnswerEd \in BOOLEAN /\ m_checkOn \in BOOLEAN
    /\ m_comStateStr \in Speeds \union {NotOpen}
    /\ m_editOther \in Seq(Nat) /\ otherText \in Seq(Nat)
    /\ openText \in {"open", "close"}
    /\ step \in {"idle", "configure", "openBox", "notOpenBox"}
    /\ speed \in Speeds \union {NotOpen}
    /\ held \in Seq([kind : Kinds, text : Speeds, speed : Nat, rate : Nat]) /\ Len(held) <= 1
    /\ handSet \in BOOLEAN
    /\ posted \in Seq(FrameTypes) /\ log \in Seq(FrameTypes) /\ issued \in Seq(Commands)

\* The handler on the stack is opening a device.
InOpen == step \in {"configure", "openBox"}

\* Flag, button and device agree whenever no open is under way, whatever way
\* the last open or close took: no handle is leaked, and the button does what
\* it says.
ButtonFollowsDevice ==
    IF InOpen
    THEN openText = "open" /\ (held = <<>> <=> step = "openBox")
    ELSE (m_commOpened <=> held # <<>>) /\ (openText = "close" <=> held # <<>>)

\* The last frame of one of the given types, if there was one, was in on.
Reported(types, on) ==
    \E n \in 1..Len(log) :
        /\ log[n] \in on
        /\ \A k \in n + 1..Len(log) : log[k] \notin types

\* The device runs at the speed s, except a CH9326 asked for a speed that has no
\* code, which runs at 9600 (HIDSpeed's default), and devices of other vendors,
\* never configured.
RunsAt(device, s) ==
    \/ device.kind = "com" /\ device.rate = s
    \/ device.kind = "ch9326" /\ device.rate \in 1..13
          /\ \/ Listed[device.rate] = s
             \/ Listed[device.rate] = 9600 /\ \A r \in 1..13 : Listed[r] # s
    \/ device.kind = "hid" /\ device.rate = 0

\* The title shows the text the device held was opened with, and what the frames
\* dispatched so far last said, boxes and frames in any order (updateState is
\* called from seven places, and nested inside comOpened).  The device runs at the
\* number _ttoi makes of that text: at the speed shown where the text is one of the
\* list's, but a device shown at "115,200" runs at 115 (wgwDlg.cpp:503 and 521).
TitleTells ==
    ~ InOpen =>
        IF held = <<>> THEN title = <<NotOpen>>
        ELSE LET d == Head(held) IN
             /\ title = <<d.text, Reported({1, 2, 3}, {1, 2}), Reported({4, 5, 6}, {4, 5})>>
             /\ RunsAt(d, ttoi[d.text])
             /\ \A n \in 1..13 : d.text = ComboBox[n] => RunsAt(d, Listed[n])

\* The pane keeps every timing frame dispatched, newest first, whatever the user
\* types into its edit control in between.
PaneKeepsFrames ==
    /\ \A a, b \in 1..Len(m_editOther) : a < b => m_editOther[a] > m_editOther[b]
    /\ {m_editOther[n] : n \in 1..Len(m_editOther)} = {n \in 1..Len(log) : log[n] = 7}

\* Frames posted are dispatched even if the user never closes a box.
FramesHandled ==
    \A n \in 1..MaxFrames :
        (Len(log) + Len(posted) >= n) ~> (Len(log) >= n)
=============================================================================
