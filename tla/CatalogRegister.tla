--------------------------- MODULE CatalogRegister --------------------------
(* What the signed catalog record promises its readers, whichever way they *)
(* come by it: an answer is a root the catalog key published, and one whose*)
(* validity had not run out when the answer was given; else it is refused. *)
EXTENDS Naturals, Sequences

CONSTANTS Readers,   \* programs that resolve the catalog name
          Lifetime,  \* validity of a record
          Refused    \* no valid record was found

VARIABLES time,    \* the time
          signed,  \* when each record was signed, in order
          told     \* what each reader was told last, and when

registerVars == <<time, signed, told>>

Published == DOMAIN signed
Fresh(r) == r \in Published /\ time <= signed[r] + Lifetime

RegisterInit ==
  /\ time = 0 /\ signed = <<>>
  /\ told = [reader \in Readers |-> [record |-> Refused, at |-> 0]]

Sign == signed' = Append(signed, time) /\ UNCHANGED <<time, told>>

Pass == time' = time + 1 /\ UNCHANGED <<signed, told>>

Answer(reader, r) ==
  /\ r = Refused \/ Fresh(r)
  /\ told' = [told EXCEPT ![reader] = [record |-> r, at |-> time]]
  /\ UNCHANGED <<time, signed>>

RegisterNext == Sign \/ Pass \/ \E reader \in Readers, r \in Published \cup {Refused} :
                                  Answer(reader, r)

RegisterSpec == RegisterInit /\ [][RegisterNext]_registerVars
=============================================================================
