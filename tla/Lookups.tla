------------------------------ MODULE Lookups ------------------------------
(***************************************************************************)
(* Three computations that share nothing and touch no other component's    *)
(* state, side by side: batches of deletions (BatchDelete), the prefix     *)
(* optimizer (PrefixOptimizer) and virtual hosts (VirtualHosts).  In a     *)
(* behaviour one of them works and the others are at rest.                 *)
(***************************************************************************)
EXTENDS BatchDelete

CONSTANTS
    Chars, RouteTable, KeyLength,                             \* the optimizer's
    Labels, Ports, NoPort, Bound, NoBucket, Tables, HostLabels  \* virtual hosts'

VARIABLES works, route, prefix, skipped, query, table, host, bucket

optimizer == <<route, prefix, skipped, query>>
virtual == <<table, host, bucket>>
lookups == <<works, vars, optimizer, virtual>>

Optimizer == INSTANCE PrefixOptimizer

Virtual == INSTANCE VirtualHosts

ASSUME OptimizerAssumption == Optimizer!PrefixAssumption

ASSUME VirtualAssumption == Virtual!TablesAssumption

NoLookup == route = << >> /\ prefix = << >> /\ skipped = TRUE /\ query = << >>
NoHost == table = << >> /\ host = << >> /\ bucket = NoBucket

LookupsInit ==
    /\ Init
    /\ \/ works = "batches" /\ NoLookup /\ NoHost
       \/ works = "optimizer" /\ Optimizer!Init /\ NoHost
       \/ works = "hosts" /\ NoLookup /\ Virtual!Init

LookupsNext ==
    \/ works = "batches" /\ Next /\ UNCHANGED <<works, optimizer, virtual>>
    \/ works = "optimizer" /\ Optimizer!Next /\ UNCHANGED <<works, vars, virtual>>
    \/ works = "hosts" /\ Virtual!Next
       /\ UNCHANGED <<works, vars, optimizer>>

LookupsSpec ==
    /\ LookupsInit
    /\ [][LookupsNext]_lookups
    /\ WF_vars(Serve /\ UNCHANGED <<works, optimizer, virtual>>)

-----------------------------------------------------------------------------
(* Properties.                                                             *)

\* PrefixOptimizer: a key a GET would find is listed.
NothingHidden == works = "optimizer" => Optimizer!NothingHidden

\* PrefixOptimizer: what is listed can be fetched.
NothingInvented == works = "optimizer" => Optimizer!NothingInvented

\* VirtualHosts: entries decide by their port, then their name, then their
\* place, in whatever order they are written.
MostSpecific == works = "hosts" => Virtual!MostSpecific
=============================================================================
