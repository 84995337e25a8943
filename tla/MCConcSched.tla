---------------------------- MODULE MCConcSched -----------------------------
(* One scheduler in detail (ConcSched), or the schedulers of a whole        *)
(* program seen from their supplies (ConcNest): Init picks which, the other *)
(* one stays idle.  Model values for ConcSched: children are interchangeable. *)
EXTENDS ConcSched, TLC

CONSTANTS
  NestBound,    \* idRegionBound, as ConcNest sees it
  Word,         \* number of values of the program's U64
  MaxCafs,      \* bound on the top-level constants of a program
  MaxDrives     \* bound on the calls of runConc

\* Regions tile the word (Machine.hs:400-407).
ASSUME NestAssumption ==
  /\ NestBound \in Nat \ {0} /\ Word \in Nat \ {0} /\ Word % NestBound = 0
  /\ MaxCafs \in Nat /\ MaxDrives \in Nat

VARIABLES part, cafs, stack, drives, minted, nstatus

nvars == <<cafs, stack, drives, minted, nstatus>>

N == INSTANCE ConcNest WITH RegionBound <- NestBound, status <- nstatus

SInit ==
  /\ Init /\ N!Init
  /\ part \in {"scheduler", "program"}
  /\ part = "scheduler" => cafs = <<>>

SNext ==
  \/ part = "scheduler" /\ Next /\ UNCHANGED <<part, nvars>>
  \/ part = "program" /\ N!Next /\ UNCHANGED <<part, vars>>

SSpec == SInit /\ [][SNext]_<<vars, nvars, part>>

ChildSymmetry == Permutations(Coro \ {RootCo})

\* The properties of ConcNest, under the names the runs give them.

\* No id is minted twice in a run of the program (Sched.hs:50-53), supplies
\* stay in their regions and ids in the word (Machine.hs:400-407).
MintedOnce == N!MintedOnce /\ N!SupplyInRegion
\* A scheduler serves only handles it minted itself (Sched.hs:309-312).
ServedByMinter == N!ServedByMinter
=============================================================================
