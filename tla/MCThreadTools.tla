---------------------------- MODULE MCThreadTools ----------------------------
(***************************************************************************)
(* An instance of ThreadTools for TLC.  Each tool runs by itself: whatever *)
(* another tool does to the thread is among the actions of the others.     *)
(***************************************************************************)
EXTENDS ThreadTools

EachAlone == {{t} : t \in ToolKinds}

ToolCalls  == Tools \X {"main", "turn"}
FreshCalls == {c \in ToolCalls : c[2] = "turn" \/ c[1] = "create"}
SequencedCalls == {c \in ToolCalls : c[2] = "main" /\ c[1] \in {"respond", "plan", "settle"}}
DetectingCalls == {c \in ToolCalls : c[2] = "main" /\ c[1] \in {"respond", "interrupt", "settle"}}
=============================================================================
