--------------------------- MODULE TerminalDisplay ---------------------------
(***************************************************************************)
(* cfio::TerminalDisplay (display/terminal_display.{h,cpp}): the live view *)
(* in the alternate screen of a terminal and the summary that stays on the *)
(* normal one.  When standard output is no terminal there is no live view. *)
(*                                                                         *)
(* What is drawn is known by its kind.  Only the normal screen is          *)
(* remembered: what the alternate one showed is gone when it is left.      *)
(* The operations are used by BenchmarkOrchestrator.                       *)
(***************************************************************************)

VARIABLES ansi,         \* ansi_: standard output is a terminal
          alt_active,   \* alt_active_
          screen,       \* the terminal's screen in use: "normal" or "alt"
          half_entered, \* history: the first frame threw on the way in
          left_over     \* what cfio last wrote on the normal screen

termVars == <<ansi, alt_active, screen, half_entered, left_over>>

TermTypeOK == /\ ansi \in BOOLEAN /\ alt_active \in BOOLEAN
              /\ half_entered \in BOOLEAN
              /\ screen \in {"normal", "alt"}
              /\ left_over \in {"nothing", "frame", "summary"}

TermInit == /\ ansi \in BOOLEAN
            /\ alt_active = FALSE
            /\ screen = "normal" /\ half_entered = FALSE
            /\ left_over = "nothing"

-----------------------------------------------------------------------------
Draws(what, on) == left_over' = IF on = "normal" THEN what ELSE left_over

\* Init: the sequences that enter the alternate screen, the first frame, then
\* the flag.
EnterLiveView ==
  /\ IF ansi THEN screen' = "alt" /\ alt_active' = TRUE /\ Draws("frame", "alt")
             ELSE UNCHANGED <<screen, alt_active, left_over>>
  /\ UNCHANGED <<ansi, half_entered>>

\* Init when the first frame throws: the sequences are written already, the
\* flag that makes anybody leave the screen again is not set yet.
FirstFrameThrows ==
  /\ ansi
  /\ screen' = "alt" /\ half_entered' = TRUE
  /\ UNCHANGED <<ansi, alt_active, left_over>>

\* Update: a frame over the last one.
DrawFrame ==
  /\ IF ansi THEN Draws("frame", screen) ELSE UNCHANGED left_over
  /\ UNCHANGED <<ansi, alt_active, screen, half_entered>>

LeaveAltScreen ==
  /\ screen' = IF alt_active THEN "normal" ELSE screen
  /\ alt_active' = FALSE
  /\ UNCHANGED <<ansi, half_entered>>

\* faulty variant: the summary is written, then the screen left
ShowSummaryFirst == LeaveAltScreen /\ Draws("summary", screen)

ShowSummary == LeaveAltScreen /\ Draws("summary", screen')

ShutdownDisplay == LeaveAltScreen /\ UNCHANGED left_over
=============================================================================
