------------------------------- MODULE ConcNest -------------------------------
(***************************************************************************)
(* Handle ids across schedulers.  runModule (src/Wok/Interp/Machine.hs)    *)
(* evaluates main in id region 0 and forces each top-level constant (CAF), *)
(* at most once, in a region of its own; either may call runConc any       *)
(* number of times, one after another or nested in a running segment.      *)
(* Each call is a driveConc that mints from the supply it is entered with  *)
(* and hands the rest back.  ConcSched is one such call in detail; here a  *)
(* scheduler is its supply and the ids in its two maps.                    *)
(***************************************************************************)
EXTENDS Integers, Sequences

CONSTANTS
  RegionBound,  \* idRegionBound
  Word,         \* number of values of the program's U64
  MaxCafs,      \* bound on the top-level constants of a program
  MaxDrives     \* bound on the calls of runConc

(* Regions tile the word: Word is a multiple of RegionBound.               *)

VARIABLES
  cafs,    \* per constant: "thunk", "forcing" or "value"
  stack,   \* evaluation contexts, the running one last
  drives,  \* calls of runConc so far
  minted,  \* history: every handle minted, in order
  status

vars == <<cafs, stack, drives, minted, status>>

maxIdRegion == (Word - 1) \div RegionBound

\* A context evaluates user code with supply sup: an interpreter entry of a
\* region, or a segment of scheduler drive, which owns the ids in its maps.
EntryFrame(r) ==
  [drive |-> 0, region |-> r, sup |-> r * RegionBound, cells |-> {}, chans |-> {}]
DriveFrame(d, r, s) ==
  [drive |-> d, region |-> r, sup |-> s, cells |-> {}, chans |-> {}]

Top     == stack[Len(stack)]
Below   == SubSeq(stack, 1, Len(stack) - 1)
Running == status = "running" /\ stack # <<>>
InDrive == Running /\ Top.drive # 0

SetTop(f) == stack' = Append(Below, f)

-----------------------------------------------------------------------------

\* The scheme refuses a program with more constants than regions.
RegionsFit(n) == n <= maxIdRegion

RunModule ==
  /\ status = "start"
  /\ IF RegionsFit(Len(cafs))
     THEN status' = "running" /\ stack' = <<EntryFrame(0)>>
     ELSE status' = "too many constants" /\ UNCHANGED stack
  /\ UNCHANGED <<cafs, drives, minted>>

RunConc ==
  /\ Running
  /\ drives < MaxDrives
  /\ drives' = drives + 1
  /\ stack' = Append(stack, DriveFrame(drives', Top.region, Top.sup))
  /\ UNCHANGED <<cafs, minted, status>>

CanMint(i) == (i + 1) % RegionBound # 0

\* A spawn, async or newChan of the running segment.
Mint(kind) ==
  /\ InDrive
  /\ IF CanMint(Top.sup)
     THEN /\ SetTop([Top EXCEPT
               !.sup = @ + 1,
               !.cells = IF kind = "promise" THEN @ \cup {Top.sup} ELSE @,
               !.chans = IF kind = "channel" THEN @ \cup {Top.sup} ELSE @])
          /\ minted' = Append(minted,
                              [id |-> Top.sup, kind |-> kind, drive |-> Top.drive])
          /\ UNCHANGED <<cafs, drives, status>>
     ELSE /\ status' = "ids exhausted"
          /\ UNCHANGED <<cafs, stack, drives, minted>>

\* Whether a scheduler finds handle h in the map its kind belongs to.
Serves(f, h) ==
  \/ h.kind = "promise" /\ h.id \in f.cells
  \/ h.kind = "channel" /\ h.id \in f.chans

\* An await of a promise, a send to or a recv from a channel.  Handles are
\* plain data, so any handle ever minted may turn up in any segment; one that
\* is served changes nothing here.
UseForeign(h) ==
  /\ InDrive
  /\ h.kind # "fiber"
  /\ ~Serves(Top, h)
  /\ status' = "not owned"
  /\ UNCHANGED <<cafs, stack, drives, minted>>

\* Mutant: the caller goes on with the supply it entered the drive with.
MutSupplyBackStale(caller, drive) == caller.sup

\* The root completed: the caller continues with the supply handed back.
SupplyBack(caller, drive) == drive.sup

ReturnDrive ==
  /\ InDrive
  /\ stack' = [Below EXCEPT ![Len(Below)].sup = SupplyBack(Below[Len(Below)], Top)]
  /\ UNCHANGED <<cafs, drives, minted, status>>

\* Mutant: every constant is seeded with main's region.
MutCafSeedMain(k) == 0

\* Region of the k-th zero-arity binding.
CafSeed(k) == k

\* The thunk boundary: the constant runs on its own supply and the forcing
\* context keeps its own.
ForceCaf(k) ==
  /\ Running
  /\ cafs[k] = "thunk"
  /\ cafs' = [cafs EXCEPT ![k] = "forcing"]
  /\ stack' = Append(stack, EntryFrame(CafSeed(k)))
  /\ UNCHANGED <<drives, minted, status>>

ReturnEntry ==
  /\ Running
  /\ Top.drive = 0
  /\ stack' = Below
  /\ IF Len(stack) = 1
     THEN status' = "done" /\ UNCHANGED cafs
     ELSE /\ cafs' = [k \in DOMAIN cafs |-> IF k = Top.region THEN "value" ELSE cafs[k]]
          /\ UNCHANGED status
  /\ UNCHANGED <<drives, minted>>

Init ==
  /\ \E n \in 0..MaxCafs : cafs = [k \in 1..n |-> "thunk"]
  /\ stack = <<>>
  /\ drives = 0
  /\ minted = <<>>
  /\ status = "start"

Next ==
  \/ RunModule
  \/ RunConc
  \/ \E kind \in {"fiber", "promise", "channel"} : Mint(kind)
  \/ \E n \in DOMAIN minted : UseForeign(minted[n])
  \/ ReturnDrive
  \/ \E k \in DOMAIN cafs : ForceCaf(k)
  \/ ReturnEntry

Spec == Init /\ [][Next]_vars

-----------------------------------------------------------------------------
(* No id is minted twice in a run of the program, whichever schedulers and *)
(* constants mint (Sched.hs:50-53, Machine.hs:400-407).                    *)
MintedOnce ==
  \A m, n \in DOMAIN minted : m # n => minted[m].id # minted[n].id

(* A scheduler serves only handles it minted itself: a handle that reaches *)
(* it from an outer, inner, earlier or constant's runConc is refused       *)
(* (Sched.hs:309-312; test/run-examples/conc-foreign-*.wok).               *)
ServedByMinter ==
  \A n \in DOMAIN stack, m \in DOMAIN minted :
    Serves(stack[n], minted[m]) => minted[m].drive = stack[n].drive

(* Every id fits the program's U64, the supply of a context stays in the   *)
(* region of its entry, and no outer context of that region is ahead of it *)
(* (Interp/Value.hs:155-169, Machine.hs:400-407,447).                      *)
SupplyInRegion ==
  /\ \A n \in DOMAIN minted : minted[n].id < Word
  /\ \A n \in DOMAIN stack :
       /\ stack[n].sup \div RegionBound = stack[n].region
       /\ \A m \in 1..n : stack[m].region = stack[n].region
                            => stack[m].sup <= stack[n].sup
===============================================================================
