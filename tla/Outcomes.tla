------------------------------ MODULE Outcomes ------------------------------
(* A call of librtlsdr is a sequence of USB transfers, each of which may      *)
(* fail.  Its result is therefore the set of its outcomes: the device record  *)
(* it may leave behind, with ok TRUE when it returns 0.                       *)

Done(d) == {[d |-> d, ok |-> TRUE]}
Refused(d) == {[d |-> d, ok |-> FALSE]}

(* Statements joined by "r |= ...": the second runs whatever the first gave. *)
Then(S, Next(_)) ==
  UNION {{[d |-> p.d, ok |-> o.ok /\ p.ok] : p \in Next(o.d)} : o \in S}

(* Statements joined by "if (r < 0) return r".                              *)
IfOk(S, Next(_)) == UNION {IF o.ok THEN Next(o.d) ELSE {o} : o \in S}

(* A call whose return value is dropped.                                    *)
Ignore(S) == {[d |-> o.d, ok |-> TRUE] : o \in S}

(* A call that stores something once it knows its result.                   *)
Storing(S, After(_)) == {[d |-> After(o), ok |-> o.ok] : o \in S}
==============================================================================
