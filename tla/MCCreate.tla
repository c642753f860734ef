------------------------------ MODULE MCCreate ------------------------------
(***************************************************************************)
(* A small instance of CreateRequests for TLC: a template whose rendered   *)
(* length depends on a variable, and calls that use it below and above the *)
(* limit of a channel, take two keys in opposite orders, name a channel    *)
(* that does not exist, or give a phone number to e-mail.                  *)
(***************************************************************************)
EXTENDS CreateRequests, TLC

CONSTANTS t1, k1, k2

MCTemplates == {t1}
MCTemplateOf ==
    t1 :> [name |-> "otp", channel |-> "sms", body |-> [text |-> 100, holes |-> [code |-> 8]]]

Item(channel, content, key) ==
    [channel |-> channel, recipient |-> IF channel = "email" THEN "email" ELSE "e164",
     content |-> content, template |-> Null, variables |-> <<>>, key |-> key]

FromTemplate(channel, t, code, key) ==
    [Item(channel, 0, key) EXCEPT !.template = t, !.variables = [code |-> code]]

Single(item) == [batch |-> FALSE, items |-> <<item>>]
Batch(a, b) == [batch |-> TRUE, items |-> <<a, b>>]

MCCalls ==
    {Single(FromTemplate("sms", t1, 60, k1)),
     Single(FromTemplate("sms", t1, 61, Null)),
     Single([Item("email", 5, k1) EXCEPT !.recipient = "e164"]),
     Batch(Item("sms", 160, k1), FromTemplate("push", t1, 156, k2)),
     Batch(Item("email", 10000, k2), Item("push", 256, k1)),
     Batch(Item("sms", 5, k2), Item("fax", 5, Null))}

MCRequests == 1 .. 3
MCKeys == {k1, k2}

=============================================================================
