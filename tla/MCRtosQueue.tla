---------------------------- MODULE MCRtosQueue ----------------------------
EXTENDS RtosQueue

CONSTANTS r1, r2, w, d1, d2, a, b

MCTask == {r1, r2, w, d1, d2}

MCCall(how, item, wait) == [how |-> how, item |-> item, wait |-> wait]

(* Readers send to the front, a writer to the back, one of them without       *)
(* waiting; d1 receives and peeks like the driver task, d2 receives too.   *)
MCMay ==
    [t \in MCTask |->
        CASE t = r1 -> {MCCall("front", a, TRUE)}
          [] t = r2 -> {MCCall("front", b, TRUE), MCCall("front", b, FALSE)}
          [] t = w -> {MCCall("back", a, TRUE)}
          [] t = d1 -> {MCCall("receive", NoItem, TRUE), MCCall("receive", NoItem, FALSE),
                        MCCall("peek", NoItem, FALSE), MCCall("peek", NoItem, TRUE)}
          [] t = d2 -> {MCCall("receive", NoItem, TRUE)}]
=============================================================================
