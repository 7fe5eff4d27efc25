-------------------------------- MODULE LdrRo --------------------------------
(***************************************************************************)
(* ldr:ro (core/hle/service/ldr_ro): relocatable modules (CRO) that a       *)
(* program loads beside its static module (CRS).  A module is registered    *)
(* in one of two lists that start in the CRS: that of the modules that are  *)
(* linked automatically, or the other.  The next and previous fields of a   *)
(* list's members form a chain in which the head's previous is the tail.    *)
(*                                                                         *)
(* A relocation batch is known by what it imports, a named symbol or the    *)
(* name of a module (for the indexed and anonymous symbols imported from    *)
(* it), and by the module it is resolved with.  Not modelled: addresses,    *)
(* segments, internal and static relocations, and malformed modules, which  *)
(* Rebase refuses before it changes another one.  A module fixed at level 3 *)
(* still counts as a source of indexed symbols.                             *)
(***************************************************************************)
EXTENDS Integers, Sequences, FiniteSets, FiniteSetsExt

CONSTANTS Module, Crs, None,
          Name,            \* [All -> name of the module]
          Exports,         \* [All -> set of symbols]; nnroAeabiAtexit_ is the CRS's only
          Imports,         \* [All -> set of symbols]
          ImportModules,   \* [All -> sequence of module names]
          Bad,             \* <<importer, source>> with an index that the source lacks
          Levels,          \* fix levels that programs ask for, within 0 .. 3
          EarlyShutdown    \* programs shut down with modules loaded

All == Module \cup {Crs}
Names(m) == {ImportModules[m][i] : i \in DOMAIN ImportModules[m]}

VARIABLES loaded_crs,   \* ClientSlot::loaded_crs is set
          mapped,       \* modules that are loaded
          next, prev,   \* NextCRO and PreviousCRO of the headers
          level,        \* the fix level of the last load; 2 drops the import tables,
                        \* 3 the export tables too
          resolved,     \* [All -> [import -> the module it is resolved with, or None]]
          unlinked,     \* modules that a program unlinked, or whose linking failed
          failed        \* modules whose last load failed while they were linked

vars == <<loaded_crs, mapped, next, prev, level, resolved, unlinked, failed>>

\* ResetExternalRelocations
Unresolved(m) == [n \in Imports[m] \cup Names(m) |-> None]

Init ==
  /\ loaded_crs = FALSE /\ mapped = {} /\ unlinked = {} /\ failed = {}
  /\ next = [m \in All |-> None] /\ prev = [m \in All |-> None]
  /\ level = [m \in All |-> 0] /\ resolved = [m \in All |-> Unresolved(m)]

-----------------------------------------------------------------------------
\* The modules from m on, along the next fields nx.
Chain(m, nx) ==
  LET reach[i \in 0 .. Cardinality(All)] ==
        IF i = 0 THEN <<m>>
        ELSE LET c == reach[i - 1] IN IF c[Len(c)] = None THEN c ELSE Append(c, nx[c[Len(c)]])
  IN  SelectSeq(reach[Cardinality(All)], LAMBDA x : x # None)

\* ForEachAutoLinkCRO begins with the static module.
AutoLinked(nx) == Chain(Crs, nx)

\* FindExportNamedSymbol, as level lv leaves the tables.
ExportsOf(m, lv) == IF lv[m] = 3 THEN {} ELSE Exports[m]
ImportsOf(m, lv) == IF lv[m] >= 2 THEN {} ELSE Imports[m]
NamesOf(m, lv)   == IF lv[m] >= 2 THEN {} ELSE Names(m)

\* The first module of a list that exports a symbol, and that has a name.
Exporter(list, symbol, lv) ==
  LET at == {i \in DOMAIN list : symbol \in ExportsOf(list[i], lv)}
  IN  IF at = {} THEN None ELSE list[Min(at)]
Named(list, name) ==
  LET at == {i \in DOMAIN list : Name[list[i]] = name}
  IN  IF at = {} THEN None ELSE list[Min(at)]

\* ApplyExitRelocations, in Rebase.
ApplyExitRelocations(m, list, lv, res) ==
  LET exit == Exporter(list, "nnroAeabiAtexit_", lv)
  IN  [res EXCEPT ![m] = [n \in DOMAIN @ |->
         IF n = "__aeabi_atexit" /\ exit # None THEN exit ELSE @[n]]]

ApplyImportNamedSymbol(m, list, lv, res) ==
  [res EXCEPT ![m] = [n \in DOMAIN @ |->
     IF n \in ImportsOf(m, lv) /\ @[n] = None THEN Exporter(list, n, lv) ELSE @[n]]]

\* ApplyModuleImport: the imports before the first that fails.
BadImports(m, list, lv) ==
  {i \in DOMAIN ImportModules[m] : /\ lv[m] < 2
                                   /\ <<m, Named(list, ImportModules[m][i])>> \in Bad}
ApplyModuleImport(m, list, lv, res) ==
  LET fails == BadImports(m, list, lv)
      done  == {i \in DOMAIN ImportModules[m] : lv[m] < 2 /\ \A f \in fails : i < f}
  IN  [res EXCEPT ![m] = [n \in DOMAIN @ |->
         IF (\E i \in done : ImportModules[m][i] = n) /\ Named(list, n) # None
         THEN Named(list, n) ELSE @[n]]]

\* ApplyExportNamedSymbol and ApplyModuleExport for the modules of the list, up
\* to the first where the second one fails.
BadTargets(m, list, lv) ==
  {i \in DOMAIN list : Name[m] \in NamesOf(list[i], lv) /\ <<list[i], m>> \in Bad}
ApplyExports(m, list, lv, res) ==
  LET fails == BadTargets(m, list, lv)
      named == {list[i] : i \in {j \in DOMAIN list : \A f \in fails : j <= f}}
      index == {list[i] : i \in {j \in DOMAIN list : \A f \in fails : j < f}}
  IN  [t \in All |-> [n \in DOMAIN res[t] |->
         IF \/ /\ t \in named /\ n \in ImportsOf(t, lv) /\ res[t][n] = None
               /\ n \in ExportsOf(m, lv)
            \/ t \in index /\ n \in NamesOf(t, lv) /\ n = Name[m]
         THEN m ELSE res[t][n]]]

\* Link imports, and exports if no import fails.
LinkFails(m, list, lv) == BadImports(m, list, lv) # {} \/ BadTargets(m, list, lv) # {}
Link(m, list, lv, res) ==
  LET imported == ApplyModuleImport(m, list, lv, ApplyImportNamedSymbol(m, list, lv, res))
  IN  IF BadImports(m, list, lv) # {} THEN imported ELSE ApplyExports(m, list, lv, imported)

UnlinkOnlyImports(m, list, lv, res) ==   \* mutant
  [res EXCEPT ![m] = [n \in DOMAIN @ |->
     IF n \in ImportsOf(m, lv) \cup NamesOf(m, lv) THEN None ELSE @[n]]]

\* Unlink: ResetImportNamedSymbol, ResetImportIndexedSymbol and
\* ResetImportAnonymousSymbol, then ResetExportNamedSymbol, which does not ask
\* where a symbol came from, and ResetModuleExport.
Unlink(m, list, lv, res) ==
  LET targets == {list[i] : i \in DOMAIN list}
      own     == ImportsOf(m, lv) \cup NamesOf(m, lv)
  IN  [t \in All |-> [n \in DOMAIN res[t] |->
         IF \/ t = m /\ n \in own
            \/ t \in targets /\ n \in ImportsOf(t, lv) \cap ExportsOf(m, lv)
            \/ t \in targets /\ n \in NamesOf(t, lv) /\ n = Name[m]
         THEN None ELSE res[t][n]]]

-----------------------------------------------------------------------------
\* Register as the tail of a list, or as its head.
Register(m, auto_link) ==
  LET head == IF auto_link THEN next[Crs] ELSE prev[Crs] IN
  IF head # None
  THEN /\ next' = [next EXCEPT ![prev[head]] = m, ![m] = None]
       /\ prev' = [prev EXCEPT ![m] = prev[head], ![head] = m]
  ELSE /\ next' = IF auto_link THEN [next EXCEPT ![Crs] = m, ![m] = None]
                               ELSE [next EXCEPT ![m] = None]
       /\ prev' = IF auto_link THEN [prev EXCEPT ![m] = m] ELSE [prev EXCEPT ![m] = m, ![Crs] = m]

UnregisterHead(m) ==
  LET p == IF next[m] # None THEN [prev EXCEPT ![next[m]] = prev[m]] ELSE prev IN
  /\ m \in {next[Crs], prev[Crs]}
  /\ IF m = prev[Crs]
     THEN next' = [next EXCEPT ![m] = None] /\ prev' = [p EXCEPT ![Crs] = next[m], ![m] = None]
     ELSE next' = [next EXCEPT ![Crs] = next[m], ![m] = None] /\ prev' = [p EXCEPT ![m] = None]

UnregisterInner(m) ==
  /\ m \notin {next[Crs], prev[Crs]} /\ next[m] # None
  /\ next' = [next EXCEPT ![prev[m]] = next[m], ![m] = None]
  /\ prev' = [prev EXCEPT ![next[m]] = prev[m], ![m] = None]

UnregisterTailOnly(m) ==   \* mutant
  /\ m \notin {next[Crs], prev[Crs]} /\ next[m] = None
  /\ next' = [next EXCEPT ![prev[m]] = None]
  /\ prev' = [prev EXCEPT ![m] = None]

\* The head whose previous field is m; that there is one is asserted.
UnregisterTail(m) ==
  /\ m \notin {next[Crs], prev[Crs]} /\ next[m] = None
  /\ next' = [next EXCEPT ![prev[m]] = None]
  /\ \E head \in {next[Crs], prev[Crs]} \ {None} :
       prev[head] = m /\ prev' = [prev EXCEPT ![head] = prev[m], ![m] = None]

Unregister(m) == UnregisterHead(m) \/ UnregisterInner(m) \/ UnregisterTail(m)

-----------------------------------------------------------------------------
Initialize ==
  /\ ~ loaded_crs /\ loaded_crs' = TRUE
  /\ next' = [next EXCEPT ![Crs] = None] /\ prev' = [prev EXCEPT ![Crs] = None]
  /\ resolved' = [resolved EXCEPT ![Crs] = Unresolved(Crs)]
  /\ UNCHANGED <<mapped, level, unlinked, failed>>

\* LoadCRO and LoadCRO_New: Rebase, Link, Register and Fix.  A module that
\* cannot be linked is unmapped, and that is all.
LoadCRO(m, auto_link, fix_level) ==
  LET fresh == [level EXCEPT ![m] = 0]
      list  == AutoLinked(next)
      based == ApplyExitRelocations(m, list, fresh, [resolved EXCEPT ![m] = Unresolved(m)])
      res   == Link(m, list, fresh, based)
  IN
  /\ loaded_crs /\ m \notin mapped
  /\ \/ /\ LinkFails(m, list, fresh)
        /\ resolved' = [res EXCEPT ![m] = Unresolved(m)]
        /\ failed' = failed \cup {m}
        /\ level' = fresh
        /\ UNCHANGED <<mapped, next, prev>>
     \/ /\ ~ LinkFails(m, list, fresh)
        /\ resolved' = res
        /\ Register(m, auto_link)
        /\ level' = [level EXCEPT ![m] = fix_level]
        /\ mapped' = mapped \cup {m} /\ failed' = failed \ {m}
  /\ UNCHANGED <<loaded_crs, unlinked>>

\* UnloadCRO: the module is no longer in its list when it is unlinked.
UnloadCRO(m) ==
  /\ loaded_crs /\ m \in mapped
  /\ Unregister(m)
  /\ resolved' = [Unlink(m, AutoLinked(next'), level, resolved) EXCEPT ![m] = Unresolved(m)]
  /\ mapped' = mapped \ {m} /\ unlinked' = unlinked \ {m}
  /\ UNCHANGED <<loaded_crs, level, failed>>

LinkCRO(m) ==
  LET list == AutoLinked(next) IN
  /\ loaded_crs /\ m \in mapped
  /\ resolved' = Link(m, list, level, resolved)
  /\ unlinked' = IF LinkFails(m, list, level) THEN unlinked \cup {m} ELSE unlinked \ {m}
  /\ UNCHANGED <<loaded_crs, mapped, next, prev, level, failed>>

UnlinkCRO(m) ==
  /\ loaded_crs /\ m \in mapped
  /\ resolved' = Unlink(m, AutoLinked(next), level, resolved)
  /\ unlinked' = unlinked \cup {m}
  /\ UNCHANGED <<loaded_crs, mapped, next, prev, level, failed>>

Shutdown ==
  /\ loaded_crs /\ loaded_crs' = FALSE
  /\ EarlyShutdown \/ mapped = {}
  /\ next' = [next EXCEPT ![Crs] = None] /\ prev' = [prev EXCEPT ![Crs] = None]
  /\ UNCHANGED <<mapped, level, resolved, unlinked, failed>>

Next ==
  \/ Initialize \/ Shutdown
  \/ \E m \in Module :
       \/ \E auto_link \in BOOLEAN, fix_level \in Levels : LoadCRO(m, auto_link, fix_level)
       \/ UnloadCRO(m) \/ LinkCRO(m) \/ UnlinkCRO(m)

Spec == Init /\ [][Next]_vars

-----------------------------------------------------------------------------
\* A list as Register and Unregister need it: the previous field leads back,
\* from the head to the tail.
WellLinked(list) ==
  /\ \A i, j \in DOMAIN list : list[i] = list[j] => i = j
  /\ \A i \in DOMAIN list : prev[list[i]] = list[IF i = 1 THEN Len(list) ELSE i - 1]

\* The two lists are whole and hold every loaded module once, whatever the
\* order in which modules come and go; the assertions of Register and
\* Unregister (cro_helper.cpp:1403, cro_helper.cpp:1463) follow.
ModuleListsSound ==
  loaded_crs =>
    LET auto   == Tail(AutoLinked(next))
        manual == Chain(prev[Crs], next)
        In(l)  == {l[i] : i \in DOMAIN l}
    IN  /\ WellLinked(auto) /\ WellLinked(manual)
        /\ In(auto) \cap In(manual) = {} /\ In(auto) \cup In(manual) = mapped

Linked == {AutoLinked(next)[i] : i \in DOMAIN AutoLinked(next)}

\* No automatically linked module keeps a symbol of a module that is gone,
\* unless it was fixed beyond relinking, or the other one was, or failed to
\* load after it had begun to export.
NoDanglingSymbols ==
  loaded_crs => \A t \in Linked : level[t] < 2 =>
    \A n \in DOMAIN resolved[t] : resolved[t][n] # None =>
      \/ resolved[t][n] \in mapped \cup failed \cup {Crs}
      \/ level[resolved[t][n]] = 3

\* Two modules of the list find each other, in whatever order they were loaded,
\* as long as nobody unlinked them and the symbol has one exporter.
LinksComplete ==
  loaded_crs => \A t, s \in Linked \ unlinked : s # t /\ level[t] < 2 /\ level[s] < 3 =>
    \A n \in Imports[t] \cap Exports[s] :
      (\A x \in All : n \in Exports[x] => x = s) => resolved[t][n] # None

SymbolsLinked == NoDanglingSymbols /\ LinksComplete
=============================================================================
