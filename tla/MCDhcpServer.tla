----------------------------- MODULE MCDhcpServer -----------------------------
(* A small instance of DhcpServer, and the search as the code writes it. *)
EXTENDS DhcpServer, SequencesExt

\* A server in the lower half with the default range, one in the upper half whose
\* configured range holds it, and one with a configured range it accepts: of three
\* addresses, one more than the timer tolerates leases, the others two.
MCSetups ==
  {[server |-> 1, hosts |-> 255, range |-> None],
   [server |-> 7, hosts |-> 2, range |-> [from |-> 6, to |-> 9]],
   [server |-> 1, hosts |-> 255, range |-> [from |-> 5, to |-> 7]]}

Symmetry == Permutations(Macs)

\* parse_msg's loop: the running client_address_plus, and the first free address
\* with its flag, over the nodes of the list in order.
Visit(found, ip) ==
  [plus |-> IF ip = found.plus THEN found.plus + 1 ELSE found.plus,
   first |-> IF found.flag \/ found.first < ip THEN found.first
             ELSE found.first + 1,
   flag |-> found.flag \/ found.first < ip]

Search(ips, next, start) ==
  FoldLeft(Visit, [plus |-> next, first |-> start, flag |-> FALSE],
           SetToSortSeq(ips, <))

\* The loop over the sorted list finds what Skip says of the set of leases, from
\* every candidate, also for the part of the list before a station's own lease,
\* where the loop stops.  No lease lies before the start of the range (LeaseTable).
ASSUME SearchIsSkip ==
  \A start \in 1..2, next \in 1..8 : \A ips \in SUBSET (start..7) :
    /\ Search(ips, next, start).plus = Skip(ips, next)
    /\ Search(ips, next, start).first = Skip(ips, start)

===============================================================================
