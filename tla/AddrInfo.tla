------------------------------- MODULE AddrInfo -------------------------------
(***************************************************************************)
(* getaddrinfo of the driver client: the names and the hints are converted *)
(* to what the WSK provider takes, and the addresses it returns to what    *)
(* the caller takes, each into memory that is allocated for it. Any        *)
(* allocation may fail.                                                    *)
(*                                                                         *)
(* The caller gives both names and hints, and asks for no canonical name.  *)
(***************************************************************************)
EXTENDS Integers

CONSTANT MaxAddresses  \* the most that a name stands for

ASSUME AddressesAssumption == MaxAddresses \in Nat \ {0}

VARIABLES
  step,         \* what getaddrinfo does next; "ok", "failed" or "unconverted"
                \* when it has returned
  pool,         \* what is allocated: [is, of], of being the address it is for
  addresses,    \* how many addresses the provider has returned
  wild          \* whether a string that was never set has been freed

addrVars == <<step, pool, addresses, wild>>

Block(is) == [is |-> is, of |-> 0]
Converted(n) == {[is |-> is, of |-> m] : is \in {"info", "addr"}, m \in 1 .. n}

\* Both names in Unicode, which nobody frees unless getaddrinfo fails.
Names == {Block("node"), Block("service")}

AddrInit ==
  /\ step = "node"
  /\ pool = {}
  /\ addresses = 0
  /\ wild = FALSE

\* getaddrinfo fails, and frees the names and what else it still has.
Refuse(rest) ==
  /\ step' = "failed"
  /\ pool' = pool \ (Names \union rest)
  /\ UNCHANGED <<addresses, wild>>

Allocate(this, next, block) ==
  /\ step = this
  /\ \/ step' = next /\ pool' = pool \union {block} /\ UNCHANGED <<addresses, wild>>
     \/ Refuse({})

\* Mutant of Ask: the hints are not freed.
AskKeepsHints ==
  /\ step = "ask"
  /\ \/ /\ addresses' \in 1 .. MaxAddresses
        /\ pool' = pool \union {Block("found")}
        /\ step' = "convert"
        /\ UNCHANGED wild
     \/ Refuse({})

\* The provider has a request and an event of its own for this, which are gone
\* when it returns. Then the hints are freed.
Ask ==
  /\ step = "ask"
  /\ \/ /\ addresses' \in 1 .. MaxAddresses
        /\ pool' = (pool \ {Block("hints")}) \union {Block("found")}
        /\ step' = "convert"
        /\ UNCHANGED wild
     \/ Refuse({Block("hints")})

\* The addresses are converted, or all but the last few: one cannot be
\* allocated, or its structure can and the place for the address cannot. Then
\* the structures of those before are freed, not that one nor any place for an
\* address, and a canonical name for each before, which there is none of. What
\* the provider returned is freed in any case.
Convert ==
  /\ step = "convert"
  /\ \/ /\ step' = "ok"
        /\ pool' = (pool \ {Block("found")}) \union Converted(addresses)
        /\ UNCHANGED wild
     \/ \E n \in 1 .. addresses, allocated \in BOOLEAN :
          /\ step' = "unconverted"
          /\ pool' = (pool \ (Names \union {Block("found")}))
                       \union {[is |-> "addr", of |-> m] : m \in 1 .. n - 1}
                       \union (IF allocated THEN {[is |-> "info", of |-> n]} ELSE {})
          /\ wild' = (n > 1)
  /\ UNCHANGED addresses

GetAddrInfo ==
  \/ Allocate("node", "service", Block("node"))
  \/ Allocate("service", "hints", Block("service"))
  \/ Allocate("hints", "ask", Block("hints"))
  \/ Ask
  \/ Convert

\* freeaddrinfo, which the guard of the caller does if there is something.
FreeAddrInfo ==
  pool' = IF step = "ok" THEN pool \ Converted(addresses) ELSE pool
=============================================================================
