---------------------------- MODULE ClosureBuilder ----------------------------
(***************************************************************************)
(* The closure builder (src/closure.c): six growing tables are filled call *)
(* by call, validated as a whole, and copied into an immutable, sorted     *)
(* closure.  Every array lives in memory of the caller's allocator, which  *)
(* may refuse, and must be given back with the size it was asked for.      *)
(*                                                                         *)
(* heap maps an address to a block: the size asked for (an item type and a *)
(* number of items) and the rows written to it; addresses are numbered per *)
(* item type.  A table of a builder or a closure is an address, a count    *)
(* and a capacity, as in                                                   *)
(* struct kb2_closure_storage.  Names and identifiers are numbers, 0 the   *)
(* invalid one; digests are numbers, 0 the zero digest; flags and rights   *)
(* are sets.                                                               *)
(***************************************************************************)
EXTENDS Integers, SequencesExt

CONSTANTS
  Calls,             \* the calls that may be made to fill a builder
  InitialCapacity,   \* capacity of a table's first array (8)
  MaximumCount,      \* rows a table may have (KB2_CLOSURE_MAX_...), per table
  AllocatorFails,    \* may the allocator refuse?
  MaxObjects         \* bound: builders and closures alive at the same time

Tables == <<"artifacts", "dependencies", "exports", "imports", "resources", "bindings">>

TableNames == ToSet(Tables)

NULL == [item |-> "none", n |-> 0]

VARIABLES
  heap,       \* live blocks
  misfree,    \* a block was given back twice or with another size
  builder,    \* the builder, at = NULL if there is none
  closures,   \* the sealed closures, at = NULL where there is none
  sealed,     \* what the builder held when each closure was sealed
  status      \* what the last call returned

vars == <<heap, misfree, builder, closures, sealed, status>>

NoTable == [items |-> NULL, count |-> 0, capacity |-> 0]

NoStorage == [t \in TableNames |-> NoTable]

Nothing == [at |-> NULL, digest |-> 0, storage |-> NoStorage]

Slots == 1..MaxObjects

-----------------------------------------------------------------------------
(***************************************************************************)
(* Memory.  One call works on m: the heap, the number of allocations it    *)
(* asked for so far, and which of them the allocator refuses.              *)
(***************************************************************************)

(* Which of the n allocations of a call are refused.  Bound: two of them.  *)
Ooms(n) == {{}} \cup IF AllocatorFails THEN {{i, j} : i, j \in 1..n} ELSE {}

Memory(oom) == [heap |-> heap, calls |-> 0, oom |-> oom, misfree |-> misfree]

Size(item, count) == [item |-> item, count |-> count]

Fresh(h, item) ==
  LET used == {p.n : p \in {q \in DOMAIN h : q.item = item}}
  IN  [item |-> item, n |-> Min((1..(Cardinality(used) + 1)) \ used)]

Put(h, p, block) == [q \in DOMAIN h \cup {p} |-> IF q = p THEN block ELSE h[q]]

Allocate(m, size, rows) ==
  LET n == m.calls + 1
      p == IF n \in m.oom THEN NULL ELSE Fresh(m.heap, size.item)
  IN  [m |-> [m EXCEPT !.calls = n,
                       !.heap = IF p = NULL THEN @
                                ELSE Put(@, p, [size |-> size, rows |-> rows])],
       at |-> p]

Deallocate(m, p, size) ==
  IF p \in DOMAIN m.heap /\ m.heap[p].size = size
    THEN [m EXCEPT !.heap = [q \in DOMAIN @ \ {p} |-> @[q]]]
    ELSE [m EXCEPT !.misfree = TRUE]

Release(m, p, size) == IF p = NULL THEN m ELSE Deallocate(m, p, size)

(* kb2_storage_release gives every array back with the size its capacity   *)
(* says.                                                                   *)
StorageRelease(m, storage) ==
  FoldLeft(LAMBDA acc, t : Release(acc, storage[t].items, Size(t, storage[t].capacity)),
           m, Tables)

Destroyed(m, object, item) ==
  Deallocate(StorageRelease(m, object.storage), object.at, Size(item, 1))

(* The rows of a table, as read through its pointer.                       *)
Rows(h, storage, t) ==
  LET p == storage[t].items
  IN  IF p \in DOMAIN h THEN SubSeq(h[p].rows, 1, storage[t].count) ELSE <<>>

BuilderRows(t) == Rows(heap, builder.storage, t)

Contents(h, object) ==
  [digest |-> object.digest, tables |-> [t \in TableNames |-> ToSet(Rows(h, object.storage, t))]]

NewCapacity(t, capacity) ==
  LET doubled == IF capacity = 0 THEN InitialCapacity ELSE 2 * capacity
  IN  IF doubled > MaximumCount[t] THEN MaximumCount[t] ELSE doubled

(* Mutant: the old array is given back before the new one is there.        *)
ReserveEager(m, t, table) ==
  LET capacity == NewCapacity(t, table.capacity)
      old == Release(m, table.items, Size(t, table.capacity))
      new == Allocate(old, Size(t, capacity), Rows(m.heap, [x \in {t} |-> table], t))
  IN  CASE table.count < table.capacity -> [m |-> m, table |-> table, status |-> "OK"]
        [] table.count >= MaximumCount[t] ->
             [m |-> m, table |-> table, status |-> "RESOURCE_EXHAUSTED"]
        [] new.at = NULL -> [m |-> new.m, table |-> NoTable, status |-> "NO_MEMORY"]
        [] OTHER -> [m |-> new.m, status |-> "OK",
                     table |-> [table EXCEPT !.items = new.at, !.capacity = capacity]]

(* kb2_reserve: room for one more row, in a larger array if need be.       *)
Reserve(m, t, table) ==
  LET capacity == NewCapacity(t, table.capacity)
      new == Allocate(m, Size(t, capacity), Rows(m.heap, [x \in {t} |-> table], t))
  IN  CASE table.count < table.capacity -> [m |-> m, table |-> table, status |-> "OK"]
        [] table.count >= MaximumCount[t] ->
             [m |-> m, table |-> table, status |-> "RESOURCE_EXHAUSTED"]
        [] new.at = NULL -> [m |-> new.m, table |-> table, status |-> "NO_MEMORY"]
        [] OTHER -> [m |-> Release(new.m, table.items, Size(t, table.capacity)),
                     table |-> [table EXCEPT !.items = new.at, !.capacity = capacity],
                     status |-> "OK"]

-----------------------------------------------------------------------------
(***************************************************************************)
(* Filling the builder                                                     *)
(***************************************************************************)

Kinds == {"SHARED_PROVIDER", "RELOCATABLE_MODULE"}

SymbolKinds == {"FUNCTION", "OBJECT"}

ResourceFlags == {"REQUIRED", "SHARED", "RESET_REQUIRED"}

KnownRights(type) ==
  CASE type = "MEMORY" -> {"READ", "WRITE", "MAP", "DMA"}
    [] type = "DEVICE" -> {"COMMAND", "MAP", "DMA"}
    [] type = "STORAGE" -> {"READ_BLOCKS", "WRITE_BLOCKS", "FLUSH", "DISCARD"}
    [] type = "NOTIFICATION" -> {"WAIT", "SIGNAL"}
    [] type = "CHANNEL" -> {"SEND", "RECEIVE"}
    [] OTHER -> {}

Init ==
  /\ heap = <<>> /\ misfree = FALSE
  /\ builder = Nothing /\ closures = [k \in Slots |-> Nothing]
  /\ sealed = [k \in Slots |-> Contents(heap, Nothing)]
  /\ status = "OK"

Live == {k \in Slots : closures[k].at # NULL}

(* The bound on objects leaves room for one more.                          *)
Room == Cardinality(Live) + (IF builder.at = NULL THEN 0 ELSE 1) < MaxObjects

Return(s) == status' = s /\ UNCHANGED <<heap, misfree, builder, closures, sealed>>

Keep(m) == heap' = m.heap /\ misfree' = m.misfree

(* Bound: a new builder is begun when no closure is alive.                 *)
Create(digest) ==
  /\ builder.at = NULL /\ Live = {}
  /\ \/ digest = 0 /\ Return("INVALID_CONFIGURATION")
     \/ /\ digest # 0
        /\ \E oom \in Ooms(1) :
             LET new == Allocate(Memory(oom), Size("builder", 1), <<>>)
             IN  /\ Keep(new.m)
                 /\ builder' = IF new.at = NULL THEN Nothing
                                ELSE [Nothing EXCEPT !.at = new.at, !.digest = digest]
                 /\ status' = IF new.at = NULL THEN "NO_MEMORY" ELSE "OK"
        /\ UNCHANGED <<closures, sealed>>

DestroyBuilder ==
  /\ builder.at # NULL
  /\ Keep(Destroyed(Memory({}), builder, "builder"))
  /\ builder' = Nothing /\ status' = "OK"
  /\ UNCHANGED <<closures, sealed>>

(* The end of every kb2_closure_builder_add_...: reserve, then write the   *)
(* new row.                                                                *)
Append_(t, row) ==
  \E oom \in Ooms(1) :
    LET r == Reserve(Memory(oom), t, builder.storage[t])
        p == r.table.items
        ok == r.status = "OK"
    IN  /\ heap' = IF ok THEN [r.m.heap EXCEPT ![p].rows = Append(@, row)] ELSE r.m.heap
        /\ misfree' = r.m.misfree /\ status' = r.status
        /\ builder' = [builder EXCEPT !.storage[t] =
                         IF ok THEN [r.table EXCEPT !.count = @ + 1] ELSE r.table]
        /\ UNCHANGED <<closures, sealed>>

(* Arguments are checked first, then the configuration.                    *)
Add(t, valid, acceptable, row) ==
  /\ builder.at # NULL
  /\ \/ ~valid /\ Return("INVALID_ARGUMENT")
     \/ valid /\ ~acceptable /\ Return("INVALID_CONFIGURATION")
     \/ valid /\ acceptable /\ Append_(t, row)

AddArtifact(c) ==
  Add("artifacts",
      c.node # 0 /\ c.kind \in Kinds /\ c.name # 0,
      c.digest # 0 /\ \A a \in ToSet(BuilderRows("artifacts")) :
                        a.node # c.node /\ a.name # c.name,
      [node |-> c.node, kind |-> c.kind, digest |-> c.digest, name |-> c.name,
       lifecycle_set |-> FALSE, native |-> FALSE, symbols |-> <<0, 0, 0>>,
       root |-> FALSE])

(* Writes to the artifact with the given node, if it may change: new tells *)
(* what becomes of each that may.                                          *)
Change(node, valid, new) ==
  LET rows == BuilderRows("artifacts")
      found == {i \in DOMAIN rows : rows[i].node = node /\ rows[i] \in DOMAIN new}
  IN  /\ builder.at # NULL
      /\ \/ (node = 0 \/ ~valid) /\ Return("INVALID_ARGUMENT")
         \/ node # 0 /\ valid /\ found = {} /\ Return("INVALID_CONFIGURATION")
         \/ /\ node # 0 /\ valid
            /\ \E i \in found :
                 heap' = [heap EXCEPT ![builder.storage["artifacts"].items].rows[i] = new[@]]
            /\ status' = "OK"
            /\ UNCHANGED <<misfree, builder, closures, sealed>>

NoLifecycle == {a \in ToSet(BuilderRows("artifacts")) : ~a.lifecycle_set}

SetLifecycle(c) ==
  Change(c.node, 0 \notin ToSet(c.symbols),
         [a \in NoLifecycle |-> [a EXCEPT !.symbols = c.symbols, !.lifecycle_set = TRUE]])

SetNativeLifecycle(c) ==
  Change(c.node, TRUE,
         [a \in NoLifecycle |-> [a EXCEPT !.lifecycle_set = TRUE, !.native = TRUE]])

MarkRoot(c) ==
  LET unmarked == {a \in ToSet(BuilderRows("artifacts")) :
                     a.kind = "RELOCATABLE_MODULE" /\ ~a.root}
  IN  Change(c.node, TRUE, [a \in unmarked |-> [a EXCEPT !.root = TRUE]])

AddDependency(c) ==
  Add("dependencies", c.consumer # 0 /\ c.provider # 0,
      /\ c.consumer # c.provider
      /\ \A d \in ToSet(BuilderRows("dependencies")) :
           <<d.consumer, d.provider>> # <<c.consumer, c.provider>>,
      [consumer |-> c.consumer, provider |-> c.provider])

AddExport(c) ==
  Add("exports", c.node # 0 /\ c.symbol # 0 /\ c.kind \in SymbolKinds,
      \A e \in ToSet(BuilderRows("exports")) :
        <<e.node, e.symbol>> # <<c.node, c.symbol>>,
      [node |-> c.node, symbol |-> c.symbol, kind |-> c.kind])

AddImport(c) ==
  Add("imports",
      /\ c.consumer # 0 /\ c.symbol # 0 /\ c.provider_symbol # 0
      /\ c.kind \in SymbolKinds /\ c.flags \subseteq {"OPTIONAL"},
      \A i \in ToSet(BuilderRows("imports")) :
        <<i.consumer, i.symbol>> # <<c.consumer, c.symbol>>,
      [consumer |-> c.consumer, symbol |-> c.symbol, provider |-> c.provider,
       provider_symbol |-> c.provider_symbol, kind |-> c.kind, flags |-> c.flags])

AddResource(c) ==
  Add("resources",
      c.slot # 0 /\ KnownRights(c.type) # {} /\ c.flags \subseteq ResourceFlags,
      /\ c.digest # 0
      /\ c.maximum # 0 /\ c.minimum <= c.maximum
      /\ c.rights # {} /\ c.rights \subseteq KnownRights(c.type)
      /\ c.required \subseteq c.rights
      /\ "REQUIRED" \in c.flags => c.minimum # 0
      /\ \A r \in ToSet(BuilderRows("resources")) : r.slot # c.slot,
      [slot |-> c.slot, type |-> c.type, digest |-> c.digest, minimum |-> c.minimum,
       maximum |-> c.maximum, required |-> c.required, rights |-> c.rights,
       flags |-> c.flags])

BindResource(c) ==
  Add("bindings", c.slot # 0 /\ c.node # 0,
      \A b \in ToSet(BuilderRows("bindings")) : <<b.slot, b.node>> # <<c.slot, c.node>>,
      [slot |-> c.slot, node |-> c.node])

-----------------------------------------------------------------------------
(***************************************************************************)
(* Validation of the filled tables, r[t] the rows of table t               *)
(***************************************************************************)

NONE == -1   \* SIZE_MAX

(* One round of kb2_sort_node_map: larger entries move up by one.          *)
InsertEntry(map, entry) ==
  LET p == Max({0} \cup {i \in DOMAIN map : map[i].node <= entry.node})
  IN  InsertAt(map, p + 1, entry)

NodeMap(artifacts) ==
  FoldLeft(InsertEntry, <<>>,
           [i \in DOMAIN artifacts |-> [node |-> artifacts[i].node, index |-> i]])

(* The binary search of kb2_node_map_find over entries begin .. end - 1.   *)
NodeMapFind(map, node) ==
  LET find[begin \in 0..Len(map), end \in 0..Len(map)] ==
        LET middle == begin + (end - begin) \div 2
            entry == map[middle + 1]
        IN  CASE begin >= end -> NONE
              [] begin < end /\ entry.node = node -> entry.index
              [] begin < end /\ entry.node < node -> find[middle + 1, end]
              [] OTHER -> find[begin, middle]
  IN  find[0, Len(map)]

Known(map, node) == NodeMapFind(map, node) # NONE

FindExport(r, node, symbol, kind) ==
  \E e \in ToSet(r["exports"]) : e = [node |-> node, symbol |-> symbol, kind |-> kind]

HasDependency(r, consumer, provider) ==
  \E d \in ToSet(r["dependencies"]) : d = [consumer |-> consumer, provider |-> provider]

(* Mutant: lifecycle styles may be mixed.                                  *)
ArtifactsValidMixed(r) ==
  LET a == r["artifacts"]
  IN  /\ a # <<>>
      /\ \A i \in DOMAIN a :
           /\ a[i].lifecycle_set
           /\ ~a[i].native => \A j \in 1..3 :
                FindExport(r, a[i].node, a[i].symbols[j], "FUNCTION")
           /\ a[i].root => a[i].kind = "RELOCATABLE_MODULE"
      /\ a[1].native =>
           Cardinality({i \in DOMAIN a : a[i].kind = "SHARED_PROVIDER"}) = 1
      /\ \E i \in DOMAIN a : a[i].root

ArtifactsValid(r) ==
  LET a == r["artifacts"]
  IN  /\ a # <<>>
      /\ \A i \in DOMAIN a :
           /\ a[i].lifecycle_set /\ a[i].native = a[1].native
           /\ ~a[i].native => \A j \in 1..3 :
                FindExport(r, a[i].node, a[i].symbols[j], "FUNCTION")
           /\ a[i].root => a[i].kind = "RELOCATABLE_MODULE"
      /\ a[1].native =>
           Cardinality({i \in DOMAIN a : a[i].kind = "SHARED_PROVIDER"}) = 1
      /\ \E i \in DOMAIN a : a[i].root

(* The verdict of kb2_validate_graph: what ClosureGraph shows of the       *)
(* function (its VerdictExact), here over the indices the node map gives.  *)
GraphValid(r, map) ==
  LET a == r["artifacts"]
      edges == {<<NodeMapFind(map, d.consumer), NodeMapFind(map, d.provider)>> :
                  d \in ToSet(r["dependencies"])}
      provider(i) == a[i].kind = "SHARED_PROVIDER"
  IN  /\ \A e \in edges : NONE \notin ToSet(e) /\ (provider(e[1]) => provider(e[2]))
      /\ \A S \in SUBSET DOMAIN a :
           (\A i \in S : \E j \in S : <<j, i>> \in edges) => S = {}
      /\ \A S \in SUBSET DOMAIN a :
           /\ \A i \in DOMAIN a : a[i].root => i \in S
           /\ \A e \in edges : e[1] \in S => e[2] \in S
           => S = DOMAIN a

SymbolsValid(r, map) ==
  /\ \A e \in ToSet(r["exports"]) : Known(map, e.node)
  /\ \A i \in ToSet(r["imports"]) :
       /\ Known(map, i.consumer)
       /\ i.provider # 0 =>
            /\ Known(map, i.provider) /\ HasDependency(r, i.consumer, i.provider)
            /\ \/ FindExport(r, i.provider, i.provider_symbol, i.kind)
               \/ "OPTIONAL" \in i.flags

ResourcesValid(r, map) ==
  LET bound(s) == {i \in DOMAIN r["bindings"] : r["bindings"][i].slot = s}
  IN  /\ \A b \in ToSet(r["bindings"]) :
           /\ \E x \in ToSet(r["resources"]) : x.slot = b.slot
           /\ Known(map, b.node)
      /\ \A x \in ToSet(r["resources"]) :
           /\ bound(x.slot) # {}
           /\ "SHARED" \notin x.flags => Cardinality(bound(x.slot)) = 1

(* The six work arrays of kb2_validate_graph, the last two only if there   *)
(* are dependencies.                                                       *)
GraphArrays(n, d) ==
  <<Size("heads", n), Size("queue", n), Size("incoming", n), Size("reachable", n)>>
    \o IF d = 0 THEN <<>> ELSE <<Size("next", d), Size("targets", d)>>

(* All are asked for even after one was refused; all that were given are   *)
(* given back, the last one first.                                         *)
GraphWork(m, n, d) ==
  LET sizes == GraphArrays(n, d)
      got == FoldLeft(LAMBDA acc, size :
                        LET x == Allocate(acc.m, size, <<>>)
                        IN  [m |-> x.m, at |-> Append(acc.at, x.at)],
                      [m |-> m, at |-> <<>>], sizes)
  IN  [m |-> FoldLeft(LAMBDA acc, i : Release(acc, got.at[i], sizes[i]),
                      got.m, Reverse([i \in DOMAIN sizes |-> i])),
       complete |-> NULL \notin ToSet(got.at)]

ValidateStorage(m, storage) ==
  LET r == [t \in TableNames |-> Rows(m.heap, storage, t)]
      n == Len(r["artifacts"])
      map == Allocate(m, Size("map", n), <<>>)
      graph == GraphWork(map.m, n, Len(r["dependencies"]))
  IN  CASE ~ArtifactsValid(r) -> [m |-> m, status |-> "INVALID_CONFIGURATION"]
        [] ArtifactsValid(r) /\ map.at = NULL -> [m |-> map.m, status |-> "NO_MEMORY"]
        [] OTHER ->
             [m |-> Deallocate(graph.m, map.at, Size("map", n)),
              status |-> IF ~graph.complete THEN "NO_MEMORY"
                         ELSE IF LET entries == NodeMap(r["artifacts"])
                                 IN  /\ GraphValid(r, entries)
                                     /\ SymbolsValid(r, entries)
                                     /\ ResourcesValid(r, entries)
                           THEN "OK" ELSE "INVALID_CONFIGURATION"]

-----------------------------------------------------------------------------
(***************************************************************************)
(* Copying, sealing, destroying                                            *)
(***************************************************************************)

(* The key a table is sorted by: kb2_compare_....                          *)
Key(t, row) ==
  CASE t = "artifacts" -> <<row.node>>
    [] t = "dependencies" -> <<row.consumer, row.provider>>
    [] t = "exports" -> <<row.node, row.symbol, IF row.kind = "FUNCTION" THEN 0 ELSE 1>>
    [] t = "imports" -> <<row.consumer, row.symbol, row.provider>>
    [] t = "resources" -> <<row.slot>>
    [] t = "bindings" -> <<row.slot, row.node>>

Before(t, x, y) ==
  LET u == Key(t, x)
      v == Key(t, y)
  IN  \E i \in DOMAIN u : u[i] < v[i] /\ \A j \in 1..(i - 1) : u[j] = v[j]

StorageSort(h, storage) ==
  FoldLeft(LAMBDA acc, t :
             IF storage[t].items = NULL THEN acc
             ELSE [acc EXCEPT ![storage[t].items].rows =
                     SortSeq(@, LAMBDA x, y : Before(t, x, y))],
           h, Tables)

(* Mutant: the copy takes over the capacity of its source.                 *)
CloneFieldCapacity(acc, t, source) ==
  LET n == source[t].count
      new == Allocate(acc.m, Size(t, n), Rows(acc.m.heap, source, t))
  IN  CASE acc.status # "OK" \/ n = 0 -> acc
        [] acc.status = "OK" /\ n # 0 /\ new.at = NULL ->
             [acc EXCEPT !.m = new.m, !.status = "NO_MEMORY"]
        [] OTHER -> [acc EXCEPT !.m = new.m,
                                !.storage[t] = [items |-> new.at, count |-> n,
                                                capacity |-> source[t].capacity]]

(* KB2_CLONE_FIELD: nothing more is done once a table could not be copied. *)
CloneField(acc, t, source) ==
  LET n == source[t].count
      new == Allocate(acc.m, Size(t, n), Rows(acc.m.heap, source, t))
  IN  CASE acc.status # "OK" \/ n = 0 -> acc
        [] acc.status = "OK" /\ n # 0 /\ new.at = NULL ->
             [acc EXCEPT !.m = new.m, !.status = "NO_MEMORY"]
        [] OTHER -> [acc EXCEPT !.m = new.m,
                                !.storage[t] = [items |-> new.at, count |-> n,
                                                capacity |-> n]]

(* kb2_closure_clone: a partial copy is destroyed.                         *)
Clone(m, source) ==
  LET new == Allocate(m, Size("closure", 1), <<>>)
      copy == FoldLeft(LAMBDA acc, t : CloneField(acc, t, source.storage),
                       [m |-> new.m, status |-> "OK", storage |-> NoStorage], Tables)
      closure == [at |-> new.at, digest |-> source.digest, storage |-> copy.storage]
  IN  CASE new.at = NULL -> [m |-> new.m, status |-> "NO_MEMORY", closure |-> Nothing]
        [] new.at # NULL /\ copy.status # "OK" ->
             [m |-> Destroyed(copy.m, closure, "closure"), status |-> copy.status,
              closure |-> Nothing]
        [] OTHER -> [m |-> [copy.m EXCEPT !.heap = StorageSort(@, copy.storage)],
                     status |-> "OK", closure |-> closure]

(* The result of a clone goes to the first free place.                     *)
Deliver(r, source) ==
  LET k == Min(Slots \ Live)
  IN  /\ Keep(r.m) /\ status' = r.status
      /\ closures' = [closures EXCEPT ![k] = r.closure]
      /\ sealed' = [sealed EXCEPT ![k] = IF r.status = "OK" THEN source ELSE @]
      /\ UNCHANGED builder

(* The validation is made on the builder itself, the copy from it.         *)
Seal ==
  /\ builder.at # NULL /\ Room
  /\ \E oom \in Ooms(14) :
       LET v == ValidateStorage(Memory(oom), builder.storage)
       IN  IF v.status # "OK"
             THEN /\ Keep(v.m) /\ status' = v.status
                  /\ UNCHANGED <<builder, closures, sealed>>
             ELSE Deliver(Clone(v.m, builder), Contents(heap, builder))

(* kb2_controller_set_closure keeps a copy of the closure it is given.     *)
CloneClosure(k) ==
  /\ closures[k].at # NULL /\ Room
  /\ \E oom \in Ooms(7) : Deliver(Clone(Memory(oom), closures[k]), sealed[k])

DestroyClosure(k) ==
  /\ closures[k].at # NULL
  /\ Keep(Destroyed(Memory({}), closures[k], "closure"))
  /\ closures' = [closures EXCEPT ![k] = Nothing]
  /\ sealed' = [sealed EXCEPT ![k] = Contents(heap, Nothing)]
  /\ status' = "OK"
  /\ UNCHANGED builder

UsesNativeLifecycle(k) ==
  LET rows == Rows(heap, closures[k].storage, "artifacts")
  IN  rows # <<>> /\ rows[1].native

(* The controller must reset the resources of a closure with such a slot.  *)
LaunchFlags(k) ==
  IF \E x \in ToSet(Rows(heap, closures[k].storage, "resources")) :
       "RESET_REQUIRED" \in x.flags
    THEN {"RESET_REQUIRED"} ELSE {}

(* The read access of kb2_closure_artifact, _resource, _resource_binding   *)
(* at an index that starts with 0.                                         *)
Read(k, t, index) ==
  LET rows == Rows(heap, closures[k].storage, t)
  IN  IF index >= closures[k].storage[t].count THEN "INVALID_ARGUMENT" ELSE rows[index + 1]

Fill(c) ==
  \/ c.op = "artifact" /\ AddArtifact(c)
  \/ c.op = "lifecycle" /\ SetLifecycle(c)
  \/ c.op = "native" /\ SetNativeLifecycle(c)
  \/ c.op = "root" /\ MarkRoot(c)
  \/ c.op = "dependency" /\ AddDependency(c)
  \/ c.op = "export" /\ AddExport(c)
  \/ c.op = "import" /\ AddImport(c)
  \/ c.op = "resource" /\ AddResource(c)
  \/ c.op = "bind" /\ BindResource(c)

Next ==
  \/ \E d \in {0, 1} : Create(d)
  \/ \E c \in Calls : Fill(c)
  \/ Seal
  \/ \E k \in Slots : CloneClosure(k) \/ DestroyClosure(k)
  \/ DestroyBuilder

Spec == Init /\ [][Next]_vars

-----------------------------------------------------------------------------
(***************************************************************************)
(* Properties                                                              *)
(***************************************************************************)

Statuses == {"OK", "INVALID_ARGUMENT", "INVALID_CONFIGURATION", "NO_MEMORY",
             "RESOURCE_EXHAUSTED"}

Objects == {builder} \cup {closures[k] : k \in Slots}

(* Type invariant: addresses, counts and statuses are what the structs may *)
(* hold, a table never has more rows than room nor more room than its      *)
(* maximum.                                                                *)
TypeOK ==
  /\ misfree \in BOOLEAN /\ status \in Statuses
  /\ \A o \in Objects : \A t \in TableNames :
       /\ o.storage[t].items.n \in Nat
       /\ o.storage[t].count \in 0..o.storage[t].capacity
       /\ o.storage[t].capacity \in 0..MaximumCount[t]

Owned(o, item) ==
  {<<o.at, Size(item, 1)>>} \cup
  {<<o.storage[t].items, Size(t, o.storage[t].capacity)>> : t \in TableNames}

(* Between two calls the live blocks are exactly those the builder and the *)
(* closures point to, each with the size it will be given back with, none  *)
(* belonging to two owners, no table has more rows than room or room than  *)
(* its maximum, and nothing was ever given back wrongly -                  *)
(* whichever allocations of kb2_reserve, kb2_validate_storage and          *)
(* kb2_closure_clone were refused on the way.                              *)
MemoryExact ==
  LET owned == {x \in Owned(builder, "builder") \cup
                      UNION {Owned(closures[k], "closure") : k \in Slots} : x[1] # NULL}
      held(o) == Cardinality({t \in TableNames : o.storage[t].items # NULL})
                   + IF o.at = NULL THEN 0 ELSE 1
  IN  /\ TypeOK
      /\ ~misfree
      /\ owned = {<<p, heap[p].size>> : p \in DOMAIN heap}
      /\ held(builder) + FoldLeft(LAMBDA n, k : n + held(closures[k]), 0,
                                  [k \in Slots |-> k])
           = Cardinality(DOMAIN heap)

(* A closure reads, for as long as it lives, as what the builder held when *)
(* it was sealed, each table strictly ascending in its key: the order does *)
(* not depend on the order of the calls, nor on what qsort does with ties. *)
(* Reading stops exactly at the count.                                     *)
SealedFaithful ==
  \A k \in Live :
    /\ Contents(heap, closures[k]) = sealed[k]
    /\ \A t \in TableNames :
         LET n == closures[k].storage[t].count
         IN  /\ Read(k, t, n) = "INVALID_ARGUMENT"
             /\ \A i \in 0..(n - 2) : Before(t, Read(k, t, i), Read(k, t, i + 1))

(* The reference for kb2_validate_storage, over sets of rows: the rules of *)
(* docs/module-closure.md.  "Dependency records form a directed acyclic    *)
(* graph", "Every non-root node is reachable from a root", "Shared         *)
(* providers depend only on other shared providers", "Artifact imports     *)
(* name a direct dependency and an export declared by that dependency",    *)
(* "Exclusive slots have one consuming node".                              *)
Documented(s) ==
  LET A == s["artifacts"]
      nodes == {a.node : a \in A}
      pairs == {<<d.consumer, d.provider>> : d \in s["dependencies"]}
      of(n) == CHOOSE a \in A : a.node = n
  IN  /\ \E a \in A : a.root
      /\ \A a \in A : a.root => a.kind = "RELOCATABLE_MODULE"
      /\ \A a \in A : a.lifecycle_set
      /\ \/ /\ \A a \in A : a.native
            /\ Cardinality({a \in A : a.kind = "SHARED_PROVIDER"}) = 1
         \/ /\ \A a \in A : ~a.native
            /\ \A a \in A : \A x \in ToSet(a.symbols) :
                 [node |-> a.node, symbol |-> x, kind |-> "FUNCTION"] \in s["exports"]
      /\ pairs \subseteq nodes \X nodes
      /\ \A p \in pairs : of(p[2]).kind = "RELOCATABLE_MODULE" =>
                            of(p[1]).kind = "RELOCATABLE_MODULE"
      /\ \A S \in (SUBSET nodes) \ {{}} :
           /\ \E n \in S : \A c \in S : <<c, n>> \notin pairs
           /\ \/ \E n \in S : of(n).root
              \/ \E p \in pairs : p[1] \notin S /\ p[2] \in S
      /\ {e.node : e \in s["exports"]} \subseteq nodes
      /\ {i.consumer : i \in s["imports"]} \subseteq nodes
      /\ \A i \in s["imports"] : i.provider # 0 =>
           /\ <<i.consumer, i.provider>> \in pairs
           /\ "OPTIONAL" \in i.flags \/
              [node |-> i.provider, symbol |-> i.provider_symbol, kind |-> i.kind]
                \in s["exports"]
      /\ {b.slot : b \in s["bindings"]} = {x.slot : x \in s["resources"]}
      /\ {b.node : b \in s["bindings"]} \subseteq nodes
      /\ \A b, c \in s["bindings"] : b.slot = c.slot /\ b # c =>
           \A x \in s["resources"] : x.slot = b.slot => "SHARED" \in x.flags

(* Sealing without lack of memory succeeds exactly on the descriptions the *)
(* rules allow, whatever the order of the rows in the tables, and leaves   *)
(* no work array behind.                                                   *)
SealExact ==
  builder.at # NULL =>
    LET v == ValidateStorage(Memory({}), builder.storage)
    IN  /\ (v.status = "OK") <=> Documented(Contents(heap, builder).tables)
        /\ v.status \in {"OK", "INVALID_CONFIGURATION"}
        /\ v.m.heap = heap

(* kb2_sort_node_map and kb2_node_map_find together find every node at its *)
(* index and no other.                                                     *)
NodeMapExact ==
  LET rows == BuilderRows("artifacts")
      map == NodeMap(rows)
  IN  \A n \in 0..(Max({0} \cup {a.node : a \in ToSet(rows)}) + 1) :
        NodeMapFind(map, n) \in
          IF \E i \in DOMAIN rows : rows[i].node = n
            THEN {i \in DOMAIN rows : rows[i].node = n} ELSE {NONE}

(* A closure may be launched only as its rows say: with the lifecycle all  *)
(* its artifacts have, and with a reset if and only if one of the slots    *)
(* it was sealed with asks for it.                                         *)
LaunchAsSealed ==
  \A k \in Live :
    /\ \A a \in sealed[k].tables["artifacts"] : a.native = UsesNativeLifecycle(k)
    /\ LaunchFlags(k) = {"RESET_REQUIRED"} \cap
                          UNION {x.flags : x \in sealed[k].tables["resources"]}

(* A call that does not return OK leaves the builder, what it holds and    *)
(* every closure as they were, so that it can be made again.               *)
FailureChangesNothing ==
  [][status' # "OK" =>
       /\ UNCHANGED <<builder, closures>>
       /\ heap' = heap]_vars
=============================================================================
