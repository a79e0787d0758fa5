---------------------------- MODULE VirtualHosts ----------------------------
(***************************************************************************)
(* Which bucket a request's Host header names (config/virtual_host.go):    *)
(* the entries of virtual_hosts are sorted once, by how specific they are, *)
(* and the first that accepts the host decides.                            *)
(*                                                                         *)
(* A host name is a sequence of labels.  Of the entries that accept a host *)
(* the one with more labels has the longer Suffix too, so labels stand for *)
(* its characters in the sort.                                             *)
(***************************************************************************)
EXTENDS Naturals, Sequences, SequencesExt, FiniteSets

CONSTANTS
    Labels,
    Ports,       \* with NoPort
    NoPort,
    Bound,       \* buckets of map entries
    NoBucket,
    Tables,      \* the lists of entries checked
    HostLabels   \* bound of the model: labels in a request's host

\* An entry: a name (kind exact) or a suffix (wild), its port, and the bucket
\* of a map entry or NoBucket of a string.
Entries ==
    [kind : {"exact", "wild"}, name : Seq(Labels), port : Ports,
     bucket : Bound \cup {NoBucket}]

\* Every table is a list of entries.
TablesAssumption == Tables \subseteq Seq(Entries)

Hosts == [name : UNION {[1..n -> Labels] : n \in 1..HostLabels}, port : Ports]

VARIABLES
    table,   \* the entries in the order they were written
    host,    \* the host last asked about
    bucket   \* GetBucketMapping of it: a bucket, a label or NoBucket

vars == <<table, host, bucket>>

-----------------------------------------------------------------------------
(* The entries.                                                            *)

PortAgrees(e, h) == e.port # NoPort => e.port = h.port

Under(e, h) == Len(h.name) > Len(e.name) /\ IsSuffix(e.name, h.name)

\* The part of the host before the suffix is one label.
OneLabel(e, h) == Len(h.name) = Len(e.name) + 1

\* A string without a wildcard accepts nothing; a map entry with one accepts
\* names of any depth.
AcceptsHost(e, h) ==
    /\ PortAgrees(e, h)
    /\ IF e.kind = "exact" THEN e.bucket # NoBucket /\ h.name = e.name
       ELSE Under(e, h) /\ (e.bucket = NoBucket => OneLabel(e, h))

BucketOf(e, h) == IF e.bucket = NoBucket THEN h.name[1] ELSE e.bucket

-----------------------------------------------------------------------------
(* Their order.                                                            *)

\* Mutant: the port is compared last.
BeforeByLength(d, e) ==
    \/ Len(d.name) > Len(e.name)
    \/ Len(d.name) = Len(e.name) /\ d.port # NoPort /\ e.port = NoPort

\* An entry with a port before one without, then the longer suffix first.
Before(d, e) ==
    IF (d.port # NoPort) # (e.port # NoPort) THEN d.port # NoPort
    ELSE Len(d.name) > Len(e.name)

\* The sort is stable: what it does not tell apart stays as it was written.
Ahead(entries, i, j) ==
    \/ Before(entries[i], entries[j])
    \/ ~Before(entries[j], entries[i]) /\ i < j

\* The place that the entry written at i is sorted to.
Place(entries, i) ==
    1 + Cardinality({j \in DOMAIN entries : Ahead(entries, j, i)})

Sorted(entries) ==
    [p \in DOMAIN entries |->
       entries[CHOOSE i \in DOMAIN entries : Place(entries, i) = p]]

\* The first entry that accepts the host decides.
GetBucketMapping(entries, h) ==
    LET hosts == Sorted(entries)
        accepting == {p \in DOMAIN hosts : AcceptsHost(hosts[p], h)}
    IN  IF accepting = {} THEN NoBucket
        ELSE BucketOf(hosts[Min(accepting)], h)

-----------------------------------------------------------------------------
Init ==
    /\ table \in Tables
    /\ host = CHOOSE h \in Hosts : TRUE
    /\ bucket = GetBucketMapping(table, host)

Resolve(h) ==
    /\ host' = h
    /\ bucket' = GetBucketMapping(table, h)
    /\ UNCHANGED table

Next == table # << >> /\ \E h \in Hosts : Resolve(h)

Spec == Init /\ [][Next]_vars

-----------------------------------------------------------------------------
(* Properties.                                                             *)

Accepting == {i \in 1..Len(table) : AcceptsHost(table[i], host)}

\* However the entries are written down, the bucket of a host is that of the
\* entry made for its port, of these that with the longest name, and of two
\* such entries the one written first; and a host that no entry accepts is no
\* virtual host.
MostSpecific ==
    IF Accepting = {} THEN bucket = NoBucket
    ELSE \E i \in Accepting :
           /\ bucket = BucketOf(table[i], host)
           /\ \A j \in Accepting :
                \/ table[i].port # NoPort /\ table[j].port = NoPort
                \/ /\ (table[i].port = NoPort) = (table[j].port = NoPort)
                   /\ \/ Len(table[i].name) > Len(table[j].name)
                      \/ Len(table[i].name) = Len(table[j].name) /\ i <= j
=============================================================================
