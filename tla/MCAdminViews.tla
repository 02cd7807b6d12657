----------------------------- MODULE MCAdminViews -----------------------------
(* A small instance of AdminViews for TLC: the emails that are taken in. *)
EXTENDS AdminViews, TLC

CONSTANTS q1, q2, s1, x1, x2, y1, y2, c1, idea

Mail(id, payload, is_reply, attached) ==
    [id |-> id, payload |-> payload, conversation |-> c1, pilot |-> idea,
     is_reply |-> is_reply, attached |-> attached, acceptable |-> TRUE]

\* The same email twice, and two emails in one conversation, the first with an attachment.
RepeatedAndFollowed ==
    {(q1 :> Mail(x1, y1, FALSE, FALSE)) @@ (q2 :> Mail(x1, y1, FALSE, FALSE)),
     (q1 :> Mail(x1, y1, FALSE, TRUE)) @@ (q2 :> Mail(x2, y2, TRUE, FALSE))}

=============================================================================
