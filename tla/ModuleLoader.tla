--------------------------- MODULE ModuleLoader ---------------------------
(***************************************************************************)
(* The ELF loader (so_util.c) and the part of main.c that drives it: the   *)
(* three Android libraries are read into one reservation, relocated, their *)
(* imports resolved through a temporary hash table, mapped executable, and *)
(* their initialisers run.  The last initialisers of the game need the     *)
(* JavaVM that libNimble receives in JNI_OnLoad and are kept until then.   *)
(*                                                                         *)
(* An address is known by the module that owns it; "compat" owns those of  *)
(* the port's import table and "zero" is NULL.                             *)
(***************************************************************************)
EXTENDS Naturals, Sequences, FiniteSets, SequencesExt

CONSTANTS
  Modules,       \* the libraries in load order; the game is the last
  Names,         \* symbol names, in the order of the symbol tables
  Hashes,        \* values of so_symbol_hash
  Slots,         \* entries of the game's .init_array
  Registrar,     \* the first entry that is kept back (1175)
  Capacity       \* PVZ2_DEFERRED_INIT_CAPACITY

Game == Modules[Len(Modules)]
Nimble == Modules[Len(Modules) - 1]
Loadable == ToSet(Modules)
NameSet == ToSet(Names)

VARIABLES
  symbols,       \* per module and name: "none", "undef" (an import) or "def"
  compat,        \* the port's import table: "none", "compat", or "zero" for a NULL entry
  hash,          \* so_symbol_hash
  list,          \* so_list
  got,           \* what an import of a module is bound to
  mapped,        \* modules so_finalize has mapped
  ran,           \* how often an initialiser has run
  deferred,      \* pvz2_deferred_inits
  vm,            \* libNimble has stored the JavaVM
  early,         \* an initialiser that needs the VM has run without it
  lpc,           \* where main is
  asked          \* last dlsym: the name and what was returned

loaderVars == <<symbols, compat, hash, list, got, mapped, ran, deferred,
                vm, early, lpc, asked>>

(* The registrar is one of the entries, and there is room for it and those  *)
(* above it: 1175 to 1182 of the game's, of 32 places.                      *)
LoaderConstants ==
  /\ Modules \in Seq(Loadable) /\ Len(Modules) >= 2 /\ IsInjective(Modules)
  /\ Loadable \cap {"none", "zero", "taint"} = {}
  /\ Names \in Seq(NameSet) /\ Hashes \subseteq Nat
  /\ Slots \in Nat /\ Registrar \in 1 .. Slots
  /\ Capacity \in Nat /\ Slots < Registrar + Capacity

(* Initialisers: one stands for those of each other library. *)
Inits == {<<m, 1>> : m \in Loadable \ {Game}} \cup ({Game} \X (1 .. Slots))

NoAnswer == [name |-> "none", owner |-> "none", symbol |-> "none"]

Init ==
  /\ symbols = [m \in Loadable |-> [n \in NameSet |-> "none"]]
  /\ compat \in [NameSet -> {"none", "compat", "zero"}]
  /\ hash \in [NameSet -> Hashes]
  /\ list = <<>>
  /\ got = [m \in Loadable |-> [n \in NameSet |-> "unbound"]]
  /\ mapped = {}
  /\ ran = [i \in Inits |-> 0]
  /\ deferred = <<>>
  /\ vm = FALSE
  /\ early = FALSE
  /\ lpc = "load"
  /\ asked = NoAnswer

-----------------------------------------------------------------------------
(* Loading *)

Loading == Modules[Len(list) + 1]

(* so_load.  A file that cannot be read (fsp-srv, then stdio), is no ELF,   *)
(* does not fit the reservation or has no symbol table is fatal.            *)
LoadFails ==
  /\ lpc = "load"
  /\ lpc' = "fatal"
  /\ UNCHANGED <<symbols, compat, hash, list, got, mapped, ran, deferred, vm,
                 early, asked>>

Load(table) ==
  /\ lpc = "load"
  /\ symbols' = [symbols EXCEPT ![Loading] = table]
  /\ list' = Append(list, Loading)
  /\ lpc' = IF Len(list') = Len(Modules) THEN "resolve" ELSE "load"
  /\ UNCHANGED <<compat, hash, got, mapped, ran, deferred, vm, early, asked>>

-----------------------------------------------------------------------------
(* Resolving *)

(* so_resolve_capacity: doubled until half the slots stay empty.  The code  *)
(* starts at 1024 slots, where the names of a small instance would not meet.*)
Wanted == Len(Names) * Len(Modules)
Doubled[k \in 0 .. Wanted] ==
  IF k = 0 THEN 1
  ELSE LET size == Doubled[k - 1] IN IF size < 2 * Wanted THEN 2 * size ELSE size
TableSize == Doubled[Wanted]

Empty == [name |-> "none", owner |-> "zero"]
Blank == [i \in 0 .. TableSize - 1 |-> Empty]

(* The slots from the home slot of a name on, in probing order. *)
Path(n) ==
  LET size == TableSize
      home == hash[n] % size
  IN [k \in 0 .. size - 1 |-> IF home + k < size THEN home + k ELSE home + k - size]

(* A probe that compares hashes only. *)
Stops_ByHash(slot, n) == slot = Empty \/ hash[slot.name] = hash[n]

Stops(slot, n) == slot = Empty \/ (hash[slot.name] = hash[n] /\ slot.name = n)

FirstOf(places) == CHOOSE k \in places : \A j \in places : k <= j
Stopping(table, n) ==
  LET path == Path(n) IN {k \in 0 .. TableSize - 1 : Stops(table[path[k]], n)}
Probe(table, n) == Path(n)[FirstOf(Stopping(table, n))]

(* so_resolve_insert refuses an address of 0 and a full table, and the      *)
(* whole table with it.  A name that is already there keeps its first owner.*)
Insert(table, n, owner) ==
  IF table = <<>> \/ owner = "zero" \/ Stopping(table, n) = {} THEN <<>>
  ELSE IF table[Probe(table, n)] = Empty
       THEN [table EXCEPT ![Probe(table, n)] = [name |-> n, owner |-> owner]]
       ELSE table

(* What one provider offers goes in, in the order of its symbols. *)
InsertAll(table, offers) ==
  LET done[i \in 0 .. Len(Names)] ==
        IF i = 0 THEN table
        ELSE IF offers[Names[i]] = "none" THEN done[i - 1]
        ELSE Insert(done[i - 1], Names[i], offers[Names[i]])
  IN done[Len(Names)]

(* so_build_resolve_table: the port's imports, then the other modules'.     *)
Exports(m) == [n \in NameSet |-> IF symbols[m][n] = "def" THEN m ELSE "none"]
Table(m) ==
  LET built[j \in 0 .. Len(list)] ==
        IF j = 0 THEN InsertAll(Blank, compat)
        ELSE IF list[j] = m THEN built[j - 1]
        ELSE InsertAll(built[j - 1], Exports(list[j]))
  IN built[Len(list)]

LookUp(table, n) ==
  IF Stopping(table, n) = {} THEN "zero" ELSE table[Probe(table, n)].owner

(* so_resolve_symbol_slow, used when there is no table. *)
Offering(m, n) == {j \in 1 .. Len(list) : list[j] # m /\ symbols[list[j]][n] = "def"}
SlowLookUp(m, n) ==
  IF compat[n] # "none" THEN compat[n]
  ELSE IF Offering(m, n) = {} THEN "zero" ELSE list[FirstOf(Offering(m, n))]

(* so_resolve with taint_missing_imports: an import nobody offers, weak ones *)
(* too, is bound to its own offset.                                          *)
Bind(m, memory) ==
  LET table == IF memory THEN Table(m) ELSE <<>>
      address(n) == IF table = <<>> THEN SlowLookUp(m, n) ELSE LookUp(table, n)
  IN [n \in NameSet |->
        IF symbols[m][n] # "undef" THEN "unbound"
        ELSE IF address(n) = "zero" THEN "taint" ELSE address(n)]

(* All three libraries are relocated and resolved before any of them runs.  *)
Resolve(memory) ==
  /\ lpc = "resolve"
  /\ got' = [m \in Loadable |-> Bind(m, memory)]
  /\ lpc' = "finalize"
  /\ UNCHANGED <<symbols, compat, hash, list, mapped, ran, deferred, vm, early,
                 asked>>

-----------------------------------------------------------------------------
(* Running *)

Finalize ==
  /\ lpc = "finalize"
  /\ mapped' = Loadable
  /\ lpc' = "construct"
  /\ UNCHANGED <<symbols, compat, hash, list, got, ran, deferred, vm, early,
                 asked>>

Run(i) == ran' = [ran EXCEPT ![i] = @ + 1]

Constructed(m) == \A i \in Inits : i[1] = m => ran[i] > 0 \/ i[2] \in ToSet(deferred)

(* so_execute_init_array of the libraries that keep nothing back. *)
Construct(m) ==
  /\ lpc = "construct" /\ m # Game
  /\ \A j \in 1 .. Len(Modules) :
       Modules[j] = m => \A k \in 1 .. j - 1 : Constructed(Modules[k])
  /\ ran[<<m, 1>>] = 0
  /\ Run(<<m, 1>>)
  /\ UNCHANGED <<symbols, compat, hash, list, got, mapped, deferred, vm, early,
                 lpc, asked>>

Kept(slot) == slot >= Registrar

(* The game's own .init_array: its next entry runs, or is kept while there  *)
(* is room for it.                                                          *)
ConstructGame(slot) ==
  /\ lpc = "construct"
  /\ \A m \in Loadable \ {Game} : Constructed(m)
  /\ slot = 1 + Cardinality({s \in 1 .. Slots : ran[<<Game, s>>] > 0}) + Len(deferred)
  /\ IF Kept(slot)
       THEN /\ deferred' = IF Len(deferred) < Capacity THEN Append(deferred, slot)
                           ELSE deferred
            /\ UNCHANGED <<ran, early>>
       ELSE /\ Run(<<Game, slot>>)
            /\ early' = (early \/ (slot >= Registrar /\ ~ vm))
            /\ UNCHANGED deferred
  /\ lpc' = IF slot = Slots THEN "onload" ELSE "construct"
  /\ UNCHANGED <<symbols, compat, hash, list, got, mapped, vm, asked>>

(* libNimble's JNI_OnLoad; main verifies the slot the VM is stored in. *)
NimbleOnLoad(stored) ==
  /\ lpc = "onload"
  /\ vm' = stored
  /\ lpc' = IF stored THEN "registrar" ELSE "fatal"
  /\ UNCHANGED <<symbols, compat, hash, list, got, mapped, ran, deferred, early,
                 asked>>

(* The registrar is called by its address once its code has been recognised. *)
RunRegistrar(recognised) ==
  /\ lpc = "registrar"
  /\ IF recognised
       THEN Run(<<Game, Registrar>>) /\ lpc' = "deferred"
       ELSE lpc' = "fatal" /\ UNCHANGED ran
  /\ UNCHANGED <<symbols, compat, hash, list, got, mapped, deferred, vm, early,
                 asked>>

(* The entries above the registrar, in order. *)
RunDeferred ==
  /\ lpc = "deferred"
  /\ ran' = [i \in Inits |-> IF i[1] = Game /\ i[2] > Registrar /\ i[2] \in ToSet(deferred)
                             THEN ran[i] + 1 ELSE ran[i]]
  /\ lpc' = "play"
  /\ UNCHANGED <<symbols, compat, hash, list, got, mapped, deferred, vm, early,
                 asked>>

-----------------------------------------------------------------------------
(* dlsym of the game, so_find_addr_in_loaded: the first module whose symbol *)
(* table has the name at all.  An import has the value 0, so the answer is  *)
(* the base of that module.                                                 *)
DlSym(n) ==
  /\ lpc = "play"
  /\ LET having == SelectSeq(list, LAMBDA m : symbols[m][n] # "none")
     IN asked' = IF having = <<>> THEN [name |-> n, owner |-> "zero", symbol |-> "none"]
                 ELSE [name |-> n, owner |-> Head(having),
                       symbol |-> IF symbols[Head(having)][n] = "def" THEN n ELSE "base"]
  /\ UNCHANGED <<symbols, compat, hash, list, got, mapped, ran, deferred, vm,
                 early, lpc>>

SymbolTables == [NameSet -> {"none", "undef", "def"}]

Next ==
  \/ LoadFails
  \/ \E table \in SymbolTables : Load(table)
  \/ \E memory \in BOOLEAN : Resolve(memory)
  \/ Finalize
  \/ \E m \in Loadable : Construct(m)
  \/ \E slot \in 1 .. Slots : ConstructGame(slot)
  \/ \E stored \in BOOLEAN : NimbleOnLoad(stored)
  \/ \E recognised \in BOOLEAN : RunRegistrar(recognised)
  \/ RunDeferred
  \/ \E n \in NameSet : DlSym(n)

Spec == Init /\ [][Next]_loaderVars

-----------------------------------------------------------------------------
(* Before any code of the libraries runs, each import is bound as the old   *)
(* linear search bound it, with or without memory for the table: to the     *)
(* port's own function, else to the first other library that exports it,    *)
(* else to a tainted address.                                               *)
Expected(m, n) ==
  IF compat[n] = "compat" THEN "compat"
  ELSE IF compat[n] = "zero" \/ Offering(m, n) = {} THEN "taint"
  ELSE list[FirstOf(Offering(m, n))]
BoundToFirst ==
  lpc \notin {"load", "resolve", "fatal"} =>
    \A m \in Loadable, n \in NameSet :
      symbols[m][n] = "undef" => got[m][n] = Expected(m, n)

(* No initialiser runs in an unmapped image, none that needs the JavaVM     *)
(* runs without it, and when the game starts each has run exactly once.     *)
InitsOnce ==
  /\ ~ early
  /\ \A i \in Inits : ran[i] > 0 => i[1] \in mapped
  /\ lpc = "play" => \A i \in Inits : ran[i] = 1

LoaderSound == BoundToFirst /\ InitsOnce

(* What makes them inductive.  The entries of the game's .init_array up to  *)
(* n have run or are kept, in order.                                        *)
Passed(n) ==
  /\ deferred = [k \in 1 .. IF n < Registrar THEN 0 ELSE n - Registrar + 1 |-> Registrar + k - 1]
  /\ \A s \in 1 .. Slots : ran[<<Game, s>>] = IF s <= n /\ s < Registrar THEN 1 ELSE 0

LibrariesRan == \A m \in Loadable \ {Game} : ran[<<m, 1>>] = 1

TypeOK ==
  /\ lpc \in {"load", "resolve", "finalize", "construct", "onload", "registrar", "deferred",
               "play", "fatal"}
  /\ mapped \in {{}, Loadable} /\ early \in BOOLEAN
  /\ ran \in [Inits -> Nat] /\ deferred \in Seq(1 .. Slots)

SymbolsOK ==
  /\ symbols \in [Loadable -> SymbolTables] /\ hash \in [NameSet -> Hashes]
  /\ compat \in [NameSet -> {"none", "compat", "zero"}]
  /\ list \in Seq(Loadable) /\ (lpc = "load" => Len(list) < Len(Modules))

(* How far the initialisers are at each place of main. *)
InOrder ==
  /\ \A i \in Inits : ran[i] <= 1
  /\ lpc \in {"load", "resolve", "finalize"} => Passed(0) /\ \A i \in Inits : ran[i] = 0
  /\ lpc \in {"construct", "onload", "registrar", "deferred", "play"} => mapped = Loadable
  /\ lpc = "construct" => \E n \in 0 .. Slots - 1 : Passed(n) /\ (n > 0 => LibrariesRan)
  /\ lpc \in {"onload", "registrar", "deferred", "play"} => LibrariesRan
  /\ lpc \in {"onload", "registrar"} => Passed(Slots)
  /\ lpc = "deferred" =>
       \A s \in 1 .. Slots : /\ s \in ToSet(deferred) <=> s >= Registrar
                             /\ ran[<<Game, s>>] = IF s <= Registrar THEN 1 ELSE 0

(* One half says what has run, the other what the imports are bound to. *)
OrderInv == TypeOK /\ InOrder /\ InitsOnce
BindInv == SymbolsOK /\ BoundToFirst
IInv == OrderInv /\ BindInv

(* The comment above so_find_addr_in_loaded: it searches for an exported    *)
(* symbol and returns 0 if no module exports it.                            *)
OnlyExportsFound ==
  asked.owner \in Loadable => asked.symbol = asked.name
=============================================================================
