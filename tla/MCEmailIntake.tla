--------------------------- MODULE MCEmailIntake ---------------------------
(* Small instances of EmailIntake for TLC: the emails of the requests. *)
EXTENDS EmailIntake, TLC

CONSTANTS q1, q2, q3, x1, x2, x3, y1, y2, y3, c1, c2, idea

Mail(id, payload, conversation, is_reply, attached) ==
    [id |-> id, payload |-> payload, conversation |-> conversation, pilot |-> idea,
     is_reply |-> is_reply, attached |-> attached, acceptable |-> TRUE]

\* The same email, with an attachment that is refused.
Tainted(mail) == [mail EXCEPT !.attached = TRUE, !.acceptable = FALSE]

\* An email, the same email repeated, and a second one in the conversation.
Repeated ==
    (q1 :> Mail(x1, y1, c1, FALSE, TRUE)) @@ (q2 :> Mail(x1, y1, c1, FALSE, TRUE))
        @@ (q3 :> Mail(x2, y2, c1, TRUE, FALSE))

\* An email, the same email under another id, and a reply in a new conversation.
Renumbered ==
    (q1 :> Mail(x1, y1, c1, FALSE, FALSE)) @@ (q2 :> Mail(x3, y1, c1, FALSE, FALSE))
        @@ (q3 :> Mail(x2, y2, c2, TRUE, FALSE))

\* An email with an attachment that is refused, the same email sent again without it, and
\* another one in the conversation.
Resent ==
    (q1 :> Tainted(Mail(x1, y1, c1, FALSE, FALSE))) @@ (q2 :> Mail(x3, y1, c1, FALSE, FALSE))
        @@ (q3 :> Mail(x2, y2, c1, FALSE, FALSE))

\* An email about an idea, and two in another conversation about an idea of the same name.
Namesakes ==
    (q1 :> Mail(x1, y1, c1, FALSE, FALSE)) @@ (q2 :> Mail(x2, y2, c2, FALSE, FALSE))
        @@ (q3 :> Mail(x3, y3, c2, FALSE, FALSE))

\* Two emails in one conversation; the first has an attachment.
Followed == (q1 :> Mail(x1, y1, c1, FALSE, TRUE)) @@ (q2 :> Mail(x2, y2, c1, TRUE, FALSE))

\* The same email twice.
Same == (q1 :> Mail(x1, y1, c1, FALSE, FALSE)) @@ (q2 :> Mail(x1, y1, c1, FALSE, FALSE))

Repetitions == {Repeated, Renumbered, Resent, Namesakes}
FollowUp == {Followed}
Twice == {Same}

=============================================================================
