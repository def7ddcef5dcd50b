---------------------------- MODULE LexicalScopes ---------------------------
(***************************************************************************)
(* Block scoping as a reader of a program expects it: an assignment        *)
(* declares an unknown name in the innermost open block, a block's names   *)
(* are forgotten where it closes, and using a name that no open block      *)
(* declares is a compilation error.                                        *)
(***************************************************************************)
EXTENDS Sequences, Naturals

CONSTANT Names

VARIABLES
  frames,   \* the names each open block declared; frames[1] is the main scope
  status    \* "ok" or "error"

scopeVars == <<frames, status>>

Visible(x) == \E n \in DOMAIN frames : x \in frames[n]

Init ==
  /\ frames = <<{}>>
  /\ status = "ok"

Assign(x) ==
  /\ status = "ok"
  /\ frames' = IF Visible(x) THEN frames
               ELSE [frames EXCEPT ![Len(frames)] = @ \union {x}]
  /\ UNCHANGED status

Load(x) ==
  /\ status = "ok"
  /\ status' = IF Visible(x) THEN "ok" ELSE "error"
  /\ UNCHANGED frames

Open ==
  /\ status = "ok"
  /\ frames' = Append(frames, {})
  /\ UNCHANGED status

Close ==
  /\ status = "ok"
  /\ Len(frames) > 1
  /\ frames' = SubSeq(frames, 1, Len(frames) - 1)
  /\ UNCHANGED status

Next ==
  \/ \E x \in Names : Assign(x) \/ Load(x)
  \/ Open
  \/ Close

Spec == Init /\ [][Next]_scopeVars
=============================================================================
