--------------------------- MODULE KnowledgeBase ---------------------------
(***************************************************************************)
(* What every writer of the database promises, whatever order the feed     *)
(* brings its messages in and wherever it is interrupted: facts are only   *)
(* learned, never lost, and a fact is learned only once the facts its      *)
(* foreign keys (declared or not) refer to are known.                      *)
(***************************************************************************)
CONSTANT Needs(_)       \* the facts a fact refers to

VARIABLE facts

KBInit == facts = {}

Learn ==
    /\ facts \subseteq facts'
    /\ \A f \in facts' \ facts : Needs(f) \subseteq facts

KBSpec == KBInit /\ [][Learn]_facts

(***************************************************************************)
(* No fact refers to one that is not there.                                *)
(***************************************************************************)
Closed == \A f \in facts : Needs(f) \subseteq facts

=============================================================================
