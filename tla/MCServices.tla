----------------------------- MODULE MCServices -----------------------------
(***************************************************************************)
(* The services gsp::Gpu, APT, nwm::UDS and ldr:ro in one run.  In a       *)
(* behaviour only the one that `part` names moves, as in MCObjects.        *)
(***************************************************************************)
EXTENDS GspGpu, Uds

CONSTANTS s1, s2, f1, App, Home, Sys, Lib, h1, c1, c2,
          Crs, ra, rb, rc

VARIABLES part,
  apt, proc, prep, dspAsked,                                                  \* AppletManager
  loaded_crs, mapped, next, prev, level, resolved, unlinked, failed           \* LdrRo

\* gsp::Gpu: two sessions that draw and stop (the module GspGpu itself); two, one
\* at a time, whose relay queue fills; two that show frames.
Draw == [irq |-> None, stop |-> FALSE]
Stop == [irq |-> None, stop |-> TRUE]
DrawAndStop == {Draw, Stop}
Q == INSTANCE GspGpu WITH
       Command <- {[irq |-> "P3D", stop |-> FALSE], Stop}, Frame <- {}, Drawn <- {}, Lag <- 2,
       Patient <- TRUE
V == INSTANCE GspGpu WITH
       Command <- {}, Frame <- {f1}, Drawn <- {1}, Lag <- 2, Patient <- TRUE

\* APT: programs that follow the protocol, and programs that send messages from
\* the background, open applets in a hurry and put the DSP to sleep.
A == INSTANCE AppletManager WITH Chatter <- {}, Hasty <- FALSE, Dsp <- FALSE
M == INSTANCE AppletManager WITH Chatter <- {Home, Sys}, Hasty <- TRUE, Dsp <- TRUE

\* nwm::UDS: a network for two of three stations that come and go (the module Uds
\* itself), and one for all of them with data.
D == INSTANCE Uds WITH
       MaxNodes <- 3, Types <- {"Client"}, MayEnd <- {}, MaxData <- 1

\* ldr:ro: two modules export the same symbol; one imports from the other by
\* an index that is not there.
By(x, a, b, c) == [m \in {Crs, ra, rb, rc} |->
                     CASE m = Crs -> x [] m = ra -> a [] m = rb -> b [] m = rc -> c]
O == INSTANCE LdrRo WITH
       Module <- {ra, rb, rc}, Name <- By("static", "A", "B", "C"),
       Exports <- By({"nnroAeabiAtexit_"}, {"f"}, {"g"}, {"g"}),
       Imports <- By({"f"}, {"g", "__aeabi_atexit"}, {"f"}, {"f"}),
       ImportModules <- By(<<>>, <<"C", "B">>, <<>>, <<"B">>),
       Bad <- {<<rc, rb>>}, Levels <- {0, 2, 3}, EarlyShutdown <- FALSE

gsp == vars
applets == <<apt, proc, prep, dspAsked>>
uds == uds_vars
modules == <<loaded_crs, mapped, next, prev, level, resolved, unlinked, failed>>
all == <<part, gsp, applets, uds, modules>>

AllInit ==
  /\ part \in {"gsp", "relay", "screens", "applets", "messages", "uds", "data", "modules"}
  /\ Init
  /\ A!Init /\ (part \notin {"applets", "messages"} => proc[App] = "started")
  /\ UdsInit
  /\ O!Init

AllNext ==
  \/ part = "gsp"      /\ Next /\ UNCHANGED <<part, applets, uds, modules>>
  \/ part = "relay"    /\ Q!Next /\ Cardinality(Connected') <= 1 /\ UNCHANGED <<part, applets, uds, modules>>
  \/ part = "screens"  /\ V!Next /\ UNCHANGED <<part, applets, uds, modules>>
  \/ part = "applets"  /\ A!Next /\ UNCHANGED <<part, gsp, uds, modules>>
  \/ part = "messages" /\ M!Next /\ UNCHANGED <<part, gsp, uds, modules>>
  \/ part = "uds"      /\ UdsNext /\ UNCHANGED <<part, gsp, applets, modules>>
  \/ part = "data"     /\ D!UdsNext /\ UNCHANGED <<part, gsp, applets, modules>>
  \/ part = "modules"  /\ O!Next /\ UNCHANGED <<part, gsp, applets, uds>>

AllSpec == AllInit /\ [][AllNext]_all

-----------------------------------------------------------------------------
\* Whoever is in the foreground runs or is about to be woken, and nobody else
\* believes to be there; a parameter waits for a program that can take it.
ForegroundAwake ==
  /\ part = "applets" => A!ForegroundAwake /\ A!ParameterHasReader
  /\ part \in {"applets", "messages"} => A!OneAwake

\* Stations have the ids under which their host knows them, and clients know each
\* other once the packets have arrived.  What waits in a channel was meant for
\* this node, and no packet is queued twice.
NetworkAgreed ==
  part = "data" => D!AgreedIds /\ D!MembersKnown /\ D!DataOnce /\ D!DataForMe

\* The two lists of modules are whole, whatever the order of loads and unloads; no
\* symbol is left behind of a module that is gone, and modules find each other in
\* whatever order they were loaded.
ModulesSound == part = "modules" => O!ModuleListsSound /\ O!SymbolsLinked
=============================================================================
