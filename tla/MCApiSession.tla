---------------------------- MODULE MCApiSession ----------------------------
(***************************************************************************)
(* Two tabs, of one browser or of two, and two accounts.                   *)
(***************************************************************************)
EXTENDS ApiSession

CONSTANTS u1, u2, t1, b1

\* Which of the two browsers has the first tab makes no difference.
FirstBrowser == tab[t1].browser = b1

\* Four moves of the users, or three and a fault.
FewEvents == moves + faults <= 4

=============================================================================
