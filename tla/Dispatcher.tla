------------------------------ MODULE Dispatcher ------------------------------
(***************************************************************************)
(* The frame every instruction of the device runs in: the APDU loop of     *)
(* main.c, the answers of io.c and the screens of uiHelpers.c, with the    *)
(* instructions left open.  A handler answers at once, puts a screen up,   *)
(* or fails; the callback of a screen does the same.                       *)
(*                                                                         *)
(* The build modelled is the one with RESET_ON_CRASH: an error outside the *)
(* range that is answered by itself restarts the device.                   *)
(***************************************************************************)
EXTENDS Naturals, Sequences

CONSTANTS
  Instructions,   \* the instructions lookupHandler() finds
  INS_NONE

ASSUME FrameAssumption == INS_NONE \notin Instructions

VARIABLES
  io_state,             \* what the device is waiting for
  currentInstruction,   \* the instruction whose call is open, or INS_NONE
  screen,               \* the display: what is on it and the state of its callback
  sending,              \* answers under way, each as the screen that follows it
  owed                  \* history: commands received and not answered

frame == <<io_state, currentInstruction, screen, sending, owed>>

Menu        == [kind |-> "menu", callback |-> "none"]
Busy        == [kind |-> "busy", callback |-> "none"]
Asks(kind)  == [kind |-> kind, callback |-> "NOT_RUN"]
Acted(s)    == [s EXCEPT !.callback = "RUN"]
Kinds       == {"text", "prompt"}    \* ui_displayPaginatedText, ui_displayPrompt
Follows     == {"idle", "busy"}      \* ui_idle() or ui_displayBusy() after io_send_buf()

FrameInit ==
  /\ io_state = "EXPECT_IO"
  /\ currentInstruction = INS_NONE
  /\ screen = Menu
  /\ sending = <<>>
  /\ owed = 0

Restart ==
  /\ io_state' = "EXPECT_IO"
  /\ currentInstruction' = INS_NONE
  /\ screen' = Menu
  /\ sending' = <<>>
  /\ owed' = 0

-------------------------------------------------------------------------------
\* An APDU is taken from the transport only when no answer is on its way out.
Receives == io_state = "EXPECT_IO" /\ sending = <<>>

\* What a handler called for instruction ins does with the command ...
HandlerAnswers(ins, follow) ==
  /\ currentInstruction' = ins
  /\ io_state' = "EXPECT_NONE"
  /\ sending' = Append(sending, follow)
  /\ owed' = owed + 1
  /\ UNCHANGED screen

\* mutant: the screen is up but io_state does not tell
HandlerShowsQuietly(ins, kind) ==
  /\ currentInstruction' = ins
  /\ io_state' = "EXPECT_NONE"
  /\ screen' = Asks(kind)
  /\ owed' = owed + 1
  /\ UNCHANGED sending

HandlerShows(ins, kind) ==
  /\ currentInstruction' = ins
  /\ io_state' = "EXPECT_UI"
  /\ screen' = Asks(kind)
  /\ owed' = owed + 1
  /\ UNCHANGED sending

\* ... an error of the range that is answered by itself,
HandlerThrows(ins) == HandlerAnswers(ins, "idle")

\* ... which is also the end of a command that reaches no handler.
BadRequest == Receives /\ HandlerThrows(currentInstruction)

MayCall(ins) == currentInstruction \in {INS_NONE, ins}

\* A command of another instruction than the one in progress: ERR_STILL_IN_CALL.
StillInCall(ins) == Receives /\ ~MayCall(ins) /\ HandlerThrows(currentInstruction)

\* An APDU that is not awaited fails the assertion of the loop.
Disturb == io_state # "EXPECT_IO" /\ sending = <<>> /\ Restart

\* mutant: the device goes on without expecting a command
SentNotReady ==
  /\ sending # <<>>
  /\ io_state' = "EXPECT_NONE"
  /\ sending' = Tail(sending)
  /\ owed' = owed - 1
  /\ IF Head(sending) = "idle"
       THEN screen' = Menu /\ currentInstruction' = INS_NONE
       ELSE screen' = Busy /\ UNCHANGED currentInstruction

\* io_exchange() has sent the answer; the rest of io_send_buf()'s caller runs.
Sent ==
  /\ sending # <<>>
  /\ io_state' = "EXPECT_IO"
  /\ sending' = Tail(sending)
  /\ owed' = owed - 1
  /\ IF Head(sending) = "idle"
       THEN screen' = Menu /\ currentInstruction' = INS_NONE
       ELSE screen' = Busy /\ UNCHANGED currentInstruction

-------------------------------------------------------------------------------
\* The user's buttons run a screen's callback once.
\* mutant: the state of the callback is not looked at
PressedAgain(kind) ==
  /\ screen.kind = kind
  /\ screen.callback # "none"

Pressed(kind) ==
  /\ screen.kind = kind
  /\ screen.callback = "NOT_RUN"

\* mutant: the callback has run and answered nothing
CallbackForgets(follow) ==
  /\ screen' = Acted(screen)
  /\ UNCHANGED <<io_state, currentInstruction, sending, owed>>

CallbackAnswers(follow) ==
  /\ screen' = Acted(screen)
  /\ sending' = Append(sending, follow)
  /\ UNCHANGED <<io_state, currentInstruction, owed>>

CallbackShows(kind) ==
  /\ screen' = Asks(kind)
  /\ UNCHANGED <<io_state, currentInstruction, sending, owed>>

\* An error of any kind in a callback: nothing is answered.
CallbackThrows == Restart

Reject == Pressed("prompt") /\ CallbackAnswers("idle")

-------------------------------------------------------------------------------
\* Every handler and callback at once: the frame promises its properties
\* whatever the instructions do within it.
Handle(ins) ==
  /\ Receives
  /\ MayCall(ins)
  /\ \/ \E f \in Follows : HandlerAnswers(ins, f)
     \/ \E k \in Kinds : HandlerShows(ins, k)

Confirm(kind) ==
  /\ Pressed(kind)
  /\ \/ \E f \in Follows : CallbackAnswers(f)
     \/ \E k \in Kinds : CallbackShows(k)

\* A failed assertion, an unplugged cable (EXCEPTION_IO_RESET), a power cycle.
Reset == Restart

FrameNext ==
  \/ \E ins \in Instructions : Handle(ins) \/ StillInCall(ins)
  \/ BadRequest \/ Disturb \/ Sent
  \/ \E k \in Kinds : Confirm(k)
  \/ Reject \/ CallbackThrows \/ Reset

FrameSpec == FrameInit /\ [][FrameNext]_frame

-------------------------------------------------------------------------------
FrameTypeOK ==
  /\ io_state \in {"EXPECT_IO", "EXPECT_UI", "EXPECT_NONE"}
  /\ currentInstruction \in Instructions \cup {INS_NONE}
  /\ screen \in {Menu, Busy} \cup [kind : Kinds, callback : {"NOT_RUN", "RUN"}]
  /\ sending \in Seq(Follows)
  /\ owed \in Nat

\* Every command is answered at most once, by whichever of its handler and its
\* callbacks comes to it, and no second answer is ever under way: io.c sends
\* from a buffer there is one of.
OneAnswerEach == owed <= 1 /\ Len(sending) <= owed

\* When nothing runs, io_state tells the truth: the device takes a command
\* exactly when it owes no answer, and otherwise a screen is up whose callback
\* has still to run - no command is left that nothing will answer.
StateTold ==
  sending = <<>> =>
    /\ io_state = "EXPECT_IO" <=> owed = 0
    /\ io_state # "EXPECT_IO" => screen.callback = "NOT_RUN"

\* The assertion in the button handlers (uiHelpers_nanos.c) never fails: a
\* screen that still waits for the user is never on the display while the
\* device waits for a command.
ButtonsExpected == screen.callback = "NOT_RUN" => io_state = "EXPECT_UI"

\* The menu is on the display exactly when no call is open (once the answer is
\* out), so a user who sees it has no pending multi-command exchange behind it.
MenuMeansIdle ==
  sending = <<>> => (screen = Menu <=> currentInstruction = INS_NONE)

\* The instruction of a call never changes in the middle of it: another one is
\* current only after INS_NONE was (design_doc.md).
InstructionKept ==
  [][currentInstruction' # currentInstruction =>
       INS_NONE \in {currentInstruction, currentInstruction'}]_frame
===============================================================================
