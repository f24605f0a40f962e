------------------------------ MODULE Delivery ------------------------------
(***************************************************************************)
(* What the server promises about delivering alerts, whatever the plugins, *)
(* the table of integrations and the database do: while the delivery of an *)
(* alert is open each plugin is handed the alert at most once, the         *)
(* delivery_attempts rows say what really happened, one row per plugin     *)
(* that was called, and once a delivery is over nothing more is sent.      *)
(***************************************************************************)
CONSTANTS Alerts, Plugins

VARIABLES open,      \* alerts being delivered
          over,      \* alerts whose delivery has ended
          received,  \* <<plugin, outcome>> of the calls made for each alert
          attempts   \* table delivery_attempts: the same, as recorded

Outcomes == Plugins \X {"ok", "failed"}

Init == /\ open = {} /\ over = {}
        /\ received = [a \in Alerts |-> {}]
        /\ attempts = [a \in Alerts |-> {}]

Begin(a) ==
  /\ a \notin open \cup over
  /\ open' = open \cup {a}
  /\ UNCHANGED <<over, received, attempts>>

Call(a, p, outcome) ==
  /\ a \in open
  /\ \A c \in received[a] : c[1] # p
  /\ received' = [received EXCEPT ![a] = @ \cup {<<p, outcome>>}]
  /\ UNCHANGED <<open, over, attempts>>

Record(a, c) ==
  /\ a \in open
  /\ c \in received[a] \ attempts[a]
  /\ attempts' = [attempts EXCEPT ![a] = @ \cup {c}]
  /\ UNCHANGED <<open, over, received>>

\* A delivery ends; when the server stops, all of them do.
End(ended) ==
  /\ ended \subseteq open
  /\ open' = open \ ended
  /\ over' = over \cup ended
  /\ UNCHANGED <<received, attempts>>

Next == \/ \E a \in Alerts : Begin(a)
        \/ \E a \in Alerts, p \in Plugins, o \in {"ok", "failed"} : Call(a, p, o)
        \/ \E a \in Alerts, c \in Outcomes : Record(a, c)
        \/ \E ended \in SUBSET Alerts : End(ended)

Spec == Init /\ [][Next]_<<open, over, received, attempts>>
=============================================================================
