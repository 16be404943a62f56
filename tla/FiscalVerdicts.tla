--------------------------- MODULE FiscalVerdicts ---------------------------
(***************************************************************************)
(* What a register and the cloud owe each other about the documents of a   *)
(* series, with no calls, no lane and no tax authority: a verdict is given *)
(* on each document, once and for ever; the register learns that verdict   *)
(* and no other, whatever was lost on its way; and it reserves a document  *)
(* only when it knows all the verdicts before, for a sale that none of     *)
(* them invoices.                                                          *)
(***************************************************************************)
EXTENDS Naturals, Sequences

CONSTANTS Sale, MaxDocs

VARIABLES
    series,    \* the sale of each document, in the order they were reserved
    verdict,   \* of each document, what became of it; "none" before
    known      \* of each document, the verdict the register knows; "none" before

vars == <<series, verdict, known>>

Verdicts == {"AUTHORIZED", "REJECTED", "RELEASED", "CONFLICTING"}

Init ==
    /\ series = <<>>
    /\ verdict = [d \in 1..MaxDocs |-> "none"]
    /\ known = [d \in 1..MaxDocs |-> "none"]

Reserve(s) ==
    /\ Len(series) < MaxDocs
    /\ \A d \in DOMAIN series :
        known[d] # "none" /\ ~(series[d] = s /\ known[d] = "AUTHORIZED")
    /\ series' = Append(series, s)
    /\ UNCHANGED <<verdict, known>>

GiveVerdict(d) ==
    /\ verdict[d] = "none"
    /\ \E v \in Verdicts : verdict' = [verdict EXCEPT ![d] = v]
    /\ UNCHANGED <<series, known>>

Learn(d) ==
    /\ known[d] = "none" /\ verdict[d] # "none"
    /\ known' = [known EXCEPT ![d] = verdict[d]]
    /\ UNCHANGED <<series, verdict>>

Next ==
    \/ \E s \in Sale : Reserve(s)
    \/ \E d \in DOMAIN series : GiveVerdict(d) \/ Learn(d)

Spec == Init /\ [][Next]_vars
=============================================================================
