---------------------------- MODULE MCAttachments ----------------------------
(* Small instances of Attachments for TLC: the emails of the requests. *)
EXTENDS Attachments, TLC

CONSTANTS q1, q2, q3, m1, m2, first, second, report, sheet, huge

File(id, content, extension) == [id |-> id, content |-> content, extension |-> extension]

\* Two emails with the same two files in opposite order, one of them under a misleading
\* name; and the first email again.
Crossed ==
    LET files == <<File(first, report, ".pdf"), File(second, sheet, ".xlsx")>>
    IN  (q1 :> [message |-> m1, attachments |-> files])
            @@ (q2 :> [message |-> m2, attachments |->
                          <<File(first, sheet, ".xlsx"), File(second, report, ".txt")>>])
            @@ (q3 :> [message |-> m1, attachments |-> files])

\* The same content twice in one email, a repetition of it, and an email that is refused
\* after its first file was stored.
Doubled ==
    LET files == <<File(first, report, ".docx"), File(second, report, ".pdf")>>
    IN  (q1 :> [message |-> m1, attachments |-> files])
            @@ (q2 :> [message |-> m1, attachments |-> files])
            @@ (q3 :> [message |-> m2, attachments |->
                          <<File(first, report, ".pdf"), File(second, huge, ".pdf")>>])

Emails == {Crossed, Doubled}

ReadableFiles == {<<report, ".pdf">>, <<sheet, ".xlsx">>}
=============================================================================
