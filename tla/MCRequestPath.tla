----------------------------- MODULE MCRequestPath -----------------------------
(***************************************************************************)
(* A request of one user, or of nobody, for any route, and beside it a     *)
(* look-up by another user, through the same storage client.  An upload is *)
(* of one file or of two.  The metadata differ from a listing only in the  *)
(* name of their call, and are left to the second request.                 *)
(***************************************************************************)
EXTENDS RequestPath, TLC

CONSTANTS u1, u2, r1, r2, k1

MCKeys == {k1, None}
MCWishes ==
    (r1 :> {w \in [op : DOMAIN Method \ {"metadata"}, slash : BOOLEAN, page : {1, 2},
                   parts : {1, 2}, token : {u1, None}] :
               (w.page = 2 => w.op = "list") /\ (w.parts = 2 => w.op = "upload")})
    @@ (r2 :> {[op |-> "metadata", slash |-> FALSE, page |-> 1, parts |-> 1, token |-> u2]})

=============================================================================
