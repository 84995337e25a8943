---------------------------- MODULE ConcNestProofs ----------------------------
(***************************************************************************)
(* Handle ids across the schedulers of a whole program, for every word,    *)
(* region size and number of constants and calls of runConc.  The          *)
(* argument: a context of evaluation mints at its own supply, and whatever *)
(* was minted in a region lies below the supply of the innermost context   *)
(* of that region, which is the only one of its region that can run.       *)
(***************************************************************************)
EXTENDS MCConcSched, TLAPS

RegionOf(i) == i \div NestBound

Context  == [drive : Nat, region : Nat, sup : Nat, cells : SUBSET Nat, chans : SUBSET Nat]
MintedHandle == [id : Nat, kind : {"fiber", "promise", "channel"}, drive : Nat]

-----------------------------------------------------------------------------
(* Arithmetic of regions.                                                  *)

(* A region's first id is of the region.                                   *)
LEMMA SeedRegion == \A r \in Nat : r * NestBound \in Nat /\ RegionOf(r * NestBound) = r
  BY NestAssumption DEF RegionOf

(* The supply left by a mint the code allows is of the same region.        *)
LEMMA NextRegion == \A i \in Nat : N!CanMint(i) => RegionOf(i + 1) = RegionOf(i)
  BY NestAssumption DEF RegionOf, N!CanMint

LEMMA RegionType == \A i \in Nat : RegionOf(i) \in Nat
  BY NestAssumption DEF RegionOf

(* Every id of an admitted region fits the word.                           *)
LEMMA RegionFits == \A i \in Nat : RegionOf(i) <= N!maxIdRegion => i < Word
  BY NestAssumption DEF RegionOf, N!maxIdRegion

-----------------------------------------------------------------------------
(* The invariant.                                                          *)

NestShape ==
  /\ cafs \in Seq({"thunk", "forcing", "value"})
  /\ stack \in Seq(Context)
  /\ minted \in Seq(MintedHandle)
  /\ drives \in Nat
  /\ nstatus = "start" => stack = <<>> /\ minted = <<>>
  /\ nstatus # "start" /\ stack # <<>> => N!RegionsFit(Len(cafs))

\* The regions something was evaluated in: main's and those of forced constants.
Opened(cfs, r) == r = 0 \/ (r \in DOMAIN cfs /\ cfs[r] # "thunk")

\* An entry opens its region; a drive runs in the region of its caller, with
\* a supply no less than that of any context of the region under it.
Sits(stk, n) ==
  /\ RegionOf(stk[n].sup) = stk[n].region
  /\ stk[n].drive # 0 => n > 1 /\ stk[n - 1].region = stk[n].region
  /\ stk[n].drive = 0 => \A m \in 1..(n - 1) : stk[m].region # stk[n].region
  /\ \A m \in 1..(n - 1) : stk[m].region = stk[n].region => stk[m].sup <= stk[n].sup

Layered == \A n \in DOMAIN stack : Opened(cafs, stack[n].region) /\ Sits(stack, n)

\* What was minted in a region lies below the supply of its innermost context.
Behind ==
  \A m \in DOMAIN minted :
    /\ Opened(cafs, RegionOf(minted[m].id))
    /\ RegionOf(minted[m].id) <= N!maxIdRegion
    /\ \A n \in DOMAIN stack : stack[n].region = RegionOf(minted[m].id) =>
         \/ minted[m].id < stack[n].sup
         \/ \E p \in (n + 1)..Len(stack) : stack[p].region = stack[n].region

\* The ids in a context's maps were minted by its own drive.
Owned ==
  \A n \in DOMAIN stack : \A h \in stack[n].cells \cup stack[n].chans :
    \E m \in DOMAIN minted : minted[m].id = h /\ minted[m].drive = stack[n].drive

NestInv == NestShape /\ Layered /\ Behind /\ N!MintedOnce /\ Owned

-----------------------------------------------------------------------------
(* How a context sits depends on the contexts under it alone.              *)
LEMMA SitsStill ==
  ASSUME NEW stk, NEW stk2, NEW n \in Nat \ {0}, Sits(stk, n),
         \A k \in 1..n : stk2[k] = stk[k]
  PROVE  Sits(stk2, n)
<1>1. n \in 1..n /\ (\A m \in 1..(n - 1) : m \in 1..n) /\ (n > 1 => n - 1 \in 1..n)
  OBVIOUS
<1>2. QED
  BY <1>1 DEF Sits

-----------------------------------------------------------------------------
(* Supplies and ids are numbers.                                           *)
LEMMA NestTypes ==
  ASSUME NestShape
  PROVE  /\ \A n \in DOMAIN stack : n \in Nat \ {0} /\ stack[n].sup \in Nat
         /\ \A m \in DOMAIN minted : minted[m].id \in Nat
<1>1. /\ Len(stack) \in Nat /\ DOMAIN stack = 1..Len(stack)
      /\ Len(minted) \in Nat /\ DOMAIN minted = 1..Len(minted)
  BY DEF NestShape
<1>2. (\A n \in DOMAIN stack : stack[n] \in Context)
  BY DEF NestShape
<1>3. (\A m \in DOMAIN minted : minted[m] \in MintedHandle)
  BY DEF NestShape
<1>4. QED
  BY <1>1, <1>2, <1>3 DEF Context, MintedHandle

(* The running context is the innermost of its region: every id minted in  *)
(* that region lies below its supply.                                      *)
LEMMA TopAhead ==
  ASSUME NestInv, stack # <<>>
  PROVE  /\ Len(stack) \in Nat \ {0} /\ DOMAIN stack = 1..Len(stack)
         /\ N!Top = stack[Len(stack)] /\ N!Top \in Context
         /\ \A m \in DOMAIN minted :
              RegionOf(minted[m].id) = N!Top.region => minted[m].id < N!Top.sup
<1>1. /\ Len(stack) \in Nat \ {0} /\ DOMAIN stack = 1..Len(stack)
      /\ N!Top = stack[Len(stack)] /\ N!Top \in Context
  BY DEF NestInv, NestShape, N!Top
<1>2. (Len(stack) + 1)..Len(stack) = {}
  BY <1>1
<1>3. Len(stack) \in DOMAIN stack
  BY <1>1
<1>4. QED
  BY <1>1, <1>2, <1>3 DEF NestInv, Behind

(* At the start nothing runs and nothing is minted.                        *)
LEMMA NestInit == N!Init => NestInv
  BY DEF N!Init, NestInv, NestShape, Layered, Behind, N!MintedOnce, Owned

\* One more context on the stack.
Pushed(f) ==
  /\ DOMAIN stack' = 1..(Len(stack) + 1)
  /\ Len(stack') = Len(stack) + 1
  /\ \A n \in 1..Len(stack) : stack'[n] = stack[n]
  /\ stack'[Len(stack) + 1] = f

(* Appending a context leaves those under it in place.                     *)
LEMMA PushShape ==
  ASSUME stack \in Seq(Context), NEW f \in Context, stack' = Append(stack, f)
  PROVE  stack' \in Seq(Context) /\ Pushed(f)
  BY DEF Pushed

(* A new context that sits well, with an empty map and a supply ahead of   *)
(* everything minted in its region, disturbs nothing.                      *)
LEMMA PushKeeps ==
  ASSUME NestInv, NEW f \in Context, Pushed(f), minted' = minted,
         f.cells = {}, f.chans = {}, Sits(stack', Len(stack) + 1),
         Opened(cafs', f.region), \A r : Opened(cafs, r) => Opened(cafs', r),
         \A m \in DOMAIN minted :
           RegionOf(minted[m].id) = f.region => minted[m].id < f.sup
  PROVE  Layered' /\ Behind' /\ N!MintedOnce' /\ Owned'
<1> DEFINE l == Len(stack)
<1>1. l \in Nat /\ DOMAIN stack = 1..l
  BY DEF NestInv, NestShape
<1>2. /\ DOMAIN stack' = 1..(l + 1) /\ Len(stack') = l + 1 /\ stack'[l + 1] = f
      /\ \A n \in 1..l : stack'[n] = stack[n]
  BY DEF Pushed
<1>3. Sits(stack', l + 1)
  OBVIOUS
<1> HIDE DEF l
<1>4. \A n \in 1..(l + 1) : n \in 1..l \/ n = l + 1
  BY <1>1
<1>5. Layered'
  <2>1. ASSUME NEW n \in 1..l
        PROVE  Opened(cafs', stack'[n].region) /\ Sits(stack', n)
    <3>1. Opened(cafs, stack[n].region) /\ Sits(stack, n) /\ stack'[n] = stack[n]
      BY <1>1, <1>2 DEF NestInv, Layered
    <3>2. n \in Nat \ {0} /\ \A k \in 1..n : stack'[k] = stack[k]
      BY <1>1, <1>2
    <3>3. QED
      BY <3>1, <3>2, SitsStill
  <2>2. QED
    BY <1>2, <1>3, <1>4, <2>1 DEF Layered
<1>6. Behind'
  <2> SUFFICES ASSUME NEW m \in DOMAIN minted, NEW n \in 1..(l + 1),
                      stack'[n].region = RegionOf(minted[m].id)
               PROVE  \/ minted[m].id < stack'[n].sup
                      \/ \E p \in (n + 1)..(l + 1) : stack'[p].region = stack'[n].region
    BY <1>2 DEF NestInv, Behind
  <2>1. CASE n = l + 1
    BY <1>2, <2>1
  <2>2. CASE n \in 1..l
    <3>1. \A p \in (n + 1)..l : p \in 1..l /\ p \in (n + 1)..(l + 1)
      BY <1>1
    <3>2. minted[m].id < stack[n].sup \/ \E p \in (n + 1)..l : stack[p].region = stack[n].region
      BY <1>1, <1>2, <2>2 DEF NestInv, Behind, l
    <3>3. QED
      BY <1>2, <2>2, <3>1, <3>2
  <2>3. QED
    BY <1>4, <2>1, <2>2
<1>7. Owned'
  BY <1>1, <1>2, <1>4 DEF NestInv, Owned
<1>8. QED
  BY <1>5, <1>6, <1>7 DEF NestInv, N!MintedOnce

(* The scheme is checked before anything runs, and main gets region 0.     *)
LEMMA RunModuleStep == NestInv /\ N!RunModule => NestInv'
<1> SUFFICES ASSUME NestInv, N!RunModule PROVE NestInv'
  OBVIOUS
<1>1. stack = <<>> /\ minted = <<>>
  BY DEF N!RunModule, NestInv, NestShape
<1>2. CASE ~N!RegionsFit(Len(cafs))
  <2>1. UNCHANGED <<cafs, stack, drives, minted>> /\ nstatus' # "start"
    BY <1>2 DEF N!RunModule
  <2>2. QED
    BY <1>1, <2>1 DEF NestInv, NestShape, Layered, Behind, N!MintedOnce, Owned
<1>3. CASE N!RegionsFit(Len(cafs))
  <2> DEFINE f == N!EntryFrame(0)
  <2>1. /\ f \in Context /\ f.drive = 0 /\ f.region = 0 /\ RegionOf(f.sup) = 0
        /\ f.cells = {} /\ f.chans = {}
    BY NestAssumption, SeedRegion DEF N!EntryFrame, Context
  <2>2. UNCHANGED <<cafs, drives, minted>> /\ stack' = <<f>> /\ nstatus' # "start"
    BY <1>3 DEF N!RunModule
  <2> HIDE DEF f
  <2>3. stack' \in Seq(Context) /\ stack'[1] = f /\ Len(stack) = 0 /\ Pushed(f)
    BY <1>1, <2>1, <2>2 DEF Pushed
  <2>4. NestShape'
    BY <1>3, <2>2, <2>3 DEF NestInv, NestShape, N!RegionsFit
  <2>5. 1..(1 - 1) = {} /\ 0 + 1 = 1
    OBVIOUS
  <2>6. Sits(stack', Len(stack) + 1)
    BY <2>1, <2>3, <2>5 DEF Sits
  <2>7. Opened(cafs', f.region) /\ cafs' = cafs
    BY <2>1, <2>2 DEF Opened
  <2>8. Layered' /\ Behind' /\ N!MintedOnce' /\ Owned'
    BY <1>1, <2>1, <2>2, <2>3, <2>6, <2>7, PushKeeps
  <2>9. QED
    BY <2>4, <2>8 DEF NestInv
<1>4. QED
  BY <1>2, <1>3

(* A call of runConc goes on with its caller's region and supply.          *)
LEMMA RunConcStep == NestInv /\ N!RunConc => NestInv'
<1> SUFFICES ASSUME NestInv, N!RunConc PROVE NestInv'
  OBVIOUS
<1> DEFINE f == N!DriveFrame(drives', N!Top.region, N!Top.sup)  l == Len(stack)
<1>1. /\ stack # <<>> /\ nstatus # "start" /\ nstatus' = nstatus
      /\ UNCHANGED <<cafs, minted>> /\ drives' = drives + 1
      /\ stack' = Append(stack, f)
  BY DEF N!RunConc, N!Running
<1>2. /\ l \in Nat \ {0} /\ DOMAIN stack = 1..l /\ N!Top = stack[l]
      /\ N!Top \in Context
      /\ \A m \in DOMAIN minted :
           RegionOf(minted[m].id) = N!Top.region => minted[m].id < N!Top.sup
  BY <1>1, TopAhead
<1>3. drives' \in Nat \ {0}
  BY <1>1 DEF NestInv, NestShape
<1>4. /\ f \in Context /\ f.drive # 0 /\ f.region = N!Top.region
      /\ f.sup = N!Top.sup /\ f.cells = {} /\ f.chans = {}
  BY <1>2, <1>3 DEF N!DriveFrame, Context
<1> HIDE DEF f
<1>5. stack' \in Seq(Context) /\ Pushed(f)
  BY <1>1, <1>4, PushShape DEF NestInv, NestShape
<1>6. stack'[l + 1] = f /\ \A n \in 1..l : stack'[n] = stack[n]
  BY <1>5 DEF Pushed
<1>7. NestShape'
  BY <1>1, <1>3, <1>5 DEF NestInv, NestShape, N!RegionsFit
<1> HIDE DEF l
<1>8. l \in 1..l /\ l + 1 \in 1..(l + 1) /\ (l + 1) - 1 = l /\ l + 1 > 1
  BY <1>2
<1>9. Opened(cafs, stack[l].region) /\ Sits(stack, l)
  BY <1>2, <1>8 DEF NestInv, Layered
<1>10. \A m \in 1..l : stack[m].region = f.region => stack[m].sup <= f.sup
  <2>1. \A m \in 1..(l - 1) : stack[m].region = f.region => stack[m].sup <= f.sup
    BY <1>2, <1>4, <1>9 DEF Sits
  <2>2. stack[l].sup <= f.sup
    BY <1>2, <1>4 DEF Context
  <2>3. \A m \in 1..l : m = l \/ m \in 1..(l - 1)
    BY <1>2
  <2>4. QED
    BY <2>1, <2>2, <2>3
<1>11. Sits(stack', l + 1)
  BY <1>2, <1>4, <1>6, <1>8, <1>9, <1>10 DEF Sits
<1>12. Layered' /\ Behind' /\ N!MintedOnce' /\ Owned'
  BY <1>1, <1>2, <1>4, <1>5, <1>9, <1>11, PushKeeps DEF l
<1>13. QED
  BY <1>7, <1>12 DEF NestInv

(* A constant is forced in a region nothing was evaluated in before.       *)
LEMMA ForceCafStep ==
  ASSUME NestInv, NEW k \in DOMAIN cafs, N!ForceCaf(k)
  PROVE  NestInv'
<1> DEFINE f == N!EntryFrame(N!CafSeed(k))  l == Len(stack)
<1>1. /\ stack # <<>> /\ nstatus # "start" /\ nstatus' = nstatus /\ cafs[k] = "thunk"
      /\ UNCHANGED <<drives, minted>> /\ cafs' = [cafs EXCEPT ![k] = "forcing"]
      /\ stack' = Append(stack, f)
  BY DEF N!ForceCaf, N!Running
<1>2. l \in Nat \ {0} /\ DOMAIN stack = 1..l
  BY <1>1, TopAhead
<1>3. k \in Nat \ {0} /\ DOMAIN cafs = 1..Len(cafs) /\ Len(cafs) \in Nat
  BY DEF NestInv, NestShape
<1>4. /\ f \in Context /\ f.drive = 0 /\ f.region = k /\ RegionOf(f.sup) = k
      /\ f.cells = {} /\ f.chans = {}
  BY <1>3, SeedRegion, NestAssumption DEF N!EntryFrame, N!CafSeed, Context
<1> HIDE DEF f
<1>5. stack' \in Seq(Context) /\ Pushed(f)
  BY <1>1, <1>4, PushShape DEF NestInv, NestShape
<1>6. stack'[l + 1] = f /\ \A n \in 1..l : stack'[n] = stack[n]
  BY <1>5 DEF Pushed
<1>7. /\ cafs' \in Seq({"thunk", "forcing", "value"}) /\ Len(cafs') = Len(cafs)
      /\ DOMAIN cafs' = DOMAIN cafs /\ cafs'[k] = "forcing"
      /\ \A j \in DOMAIN cafs \ {k} : cafs'[j] = cafs[j]
  BY <1>1 DEF NestInv, NestShape
<1>8. NestShape'
  BY <1>1, <1>5, <1>7 DEF NestInv, NestShape, N!RegionsFit
<1> HIDE DEF l
<1>9. ~Opened(cafs, k)
  BY <1>1, <1>3 DEF Opened
<1>10. \A n \in 1..l : stack[n].region # k
  BY <1>2, <1>9 DEF NestInv, Layered
<1>11. \A m \in DOMAIN minted : RegionOf(minted[m].id) # k
  BY <1>9 DEF NestInv, Behind
<1>12. (l + 1) - 1 = l
  BY <1>2
<1>13. Sits(stack', l + 1)
  BY <1>4, <1>6, <1>10, <1>12 DEF Sits
<1>14. Opened(cafs', f.region) /\ \A r : Opened(cafs, r) => Opened(cafs', r)
  BY <1>4, <1>7 DEF Opened
<1>15. Layered' /\ Behind' /\ N!MintedOnce' /\ Owned'
  BY <1>1, <1>4, <1>5, <1>11, <1>13, <1>14, PushKeeps DEF l
<1>16. QED
  BY <1>8, <1>15 DEF NestInv

\* The running context is another, those under it are as they were.
Replaced(g) ==
  /\ stack' \in Seq(Context)
  /\ DOMAIN stack' = 1..Len(stack)
  /\ Len(stack') = Len(stack)
  /\ \A n \in 1..(Len(stack) - 1) : stack'[n] = stack[n]
  /\ stack'[Len(stack)] = g

(* Setting the top.                                                        *)
LEMMA SetTopShape ==
  ASSUME stack \in Seq(Context), stack # <<>>, NEW g \in Context, N!SetTop(g)
  PROVE  Replaced(g)
<1>1. /\ Len(stack) \in Nat \ {0} /\ N!Below \in Seq(Context)
      /\ Len(N!Below) = Len(stack) - 1
      /\ \A n \in 1..(Len(stack) - 1) : N!Below[n] = stack[n]
  <2>1. Len(stack) \in Nat \ {0} /\ DOMAIN stack = 1..Len(stack)
    OBVIOUS
  <2>2. N!Below = SubSeq(stack, 1, Len(stack) - 1)
    BY DEF N!Below
  <2>3. QED
    BY <2>1, <2>2
<1>2. stack' = Append(N!Below, g)
  BY DEF N!SetTop
<1>3. QED
  BY <1>1, <1>2 DEF Replaced

(* A mint takes the running context's supply, which no id equals, and      *)
(* moves the supply on within its region.                                  *)
LEMMA MintStep ==
  ASSUME NestInv, NEW kind \in {"fiber", "promise", "channel"}, N!Mint(kind)
  PROVE  NestInv'
<1> DEFINE l == Len(stack)  t == N!Top
           h == [id |-> t.sup, kind |-> kind, drive |-> t.drive]
           g == [t EXCEPT
                  !.sup = @ + 1,
                  !.cells = IF kind = "promise" THEN @ \cup {t.sup} ELSE @,
                  !.chans = IF kind = "channel" THEN @ \cup {t.sup} ELSE @]
<1>1. stack # <<>> /\ nstatus # "start"
  BY DEF N!Mint, N!InDrive, N!Running
<1>2. /\ l \in Nat \ {0} /\ DOMAIN stack = 1..l /\ t = stack[l] /\ t \in Context
      /\ \A m \in DOMAIN minted :
           RegionOf(minted[m].id) = t.region => minted[m].id < t.sup
  BY <1>1, TopAhead
<1>3. Opened(cafs, t.region) /\ Sits(stack, l)
  BY <1>2 DEF NestInv, Layered
<1>4. CASE ~N!CanMint(t.sup)
  <2>1. UNCHANGED <<cafs, stack, drives, minted>> /\ nstatus' # "start"
    BY <1>4 DEF N!Mint
  <2>2. QED
    BY <1>1, <2>1 DEF NestInv, NestShape, Layered, Behind, N!MintedOnce, Owned,
       N!RegionsFit
<1>5. CASE N!CanMint(t.sup)
  <2>1. /\ N!SetTop(g) /\ minted' = Append(minted, h)
        /\ UNCHANGED <<cafs, drives, nstatus>>
    BY <1>5 DEF N!Mint
  <2>2. /\ g \in Context /\ g.drive = t.drive /\ g.region = t.region
        /\ g.sup = t.sup + 1 /\ t.sup \in Nat /\ t.region \in Nat
        /\ g.cells \cup g.chans \subseteq (t.cells \cup t.chans) \cup {t.sup}
    <3> HIDE DEF t
    <3>1. /\ t.sup \in Nat /\ t.region \in Nat /\ t.drive \in Nat
          /\ t.cells \in SUBSET Nat /\ t.chans \in SUBSET Nat
      BY <1>2 DEF Context
    <3> DEFINE u  == t.sup + 1
               cs == IF kind = "promise" THEN t.cells \cup {t.sup} ELSE t.cells
               hs == IF kind = "channel" THEN t.chans \cup {t.sup} ELSE t.chans
    <3>2. cs \in SUBSET Nat /\ hs \in SUBSET Nat /\ u \in Nat
      BY <3>1
    <3>3. cs \cup hs \subseteq (t.cells \cup t.chans) \cup {t.sup}
      OBVIOUS
    <3>4. g = [t EXCEPT !.sup = u, !.cells = cs, !.chans = hs]
      BY <1>2 DEF Context
    <3> HIDE DEF g, u, cs, hs
    <3>5. /\ g.drive = t.drive /\ g.region = t.region
          /\ g.sup = u /\ g.cells = cs /\ g.chans = hs
      BY <1>2, <3>4 DEF Context
    <3>6. g \in Context
      BY <1>2, <3>2, <3>4 DEF Context
    <3>7. QED
      BY <3>1, <3>3, <3>5, <3>6 DEF u
  <2>3. h \in MintedHandle /\ h.id = t.sup /\ h.drive = t.drive
    BY <1>2, <2>2 DEF MintedHandle, Context
  <2> DEFINE a == Len(minted)
  <2>4. /\ a \in Nat /\ DOMAIN minted = 1..a /\ DOMAIN minted' = 1..(a + 1)
        /\ minted' \in Seq(MintedHandle) /\ minted'[a + 1] = h
        /\ \A m \in 1..a : minted'[m] = minted[m] /\ minted[m].id \in Nat
    <3> HIDE DEF h
    <3>1. minted \in Seq(MintedHandle)
      BY DEF NestInv, NestShape
    <3>2. \A m \in DOMAIN minted : minted[m].id \in Nat
      BY NestTypes DEF NestInv
    <3>3. QED
      BY <2>1, <2>3, <3>1, <3>2
  <2>5. Replaced(g)
    BY <1>1, <2>1, <2>2, SetTopShape DEF NestInv, NestShape
  <2> HIDE DEF g, h, a
  <2>6. /\ stack' \in Seq(Context) /\ DOMAIN stack' = 1..l /\ Len(stack') = l
        /\ \A n \in 1..(l - 1) : stack'[n] = stack[n]
        /\ stack'[l] = g
    BY <2>5 DEF Replaced
  <2>7. NestShape'
    BY <1>1, <2>1, <2>4, <2>6 DEF NestInv, NestShape, N!RegionsFit
  <2> HIDE DEF l, t
  <2>8. /\ (\A n \in 1..l : n = l \/ n \in 1..(l - 1)) /\ l \in 1..l
        /\ \A m \in 1..(a + 1) : m = a + 1 \/ m \in 1..a
    BY <1>2, <2>4
  <2>9. RegionOf(t.sup) = t.region /\ RegionOf(g.sup) = g.region
    BY <1>2, <1>3, <1>5, <2>2, NextRegion DEF Sits
  <2>10. t.region <= N!maxIdRegion
    <3>1. N!RegionsFit(Len(cafs)) /\ Len(cafs) \in Nat /\ DOMAIN cafs = 1..Len(cafs)
      BY <1>1 DEF NestInv, NestShape
    <3>2. N!maxIdRegion \in Nat
      BY NestAssumption DEF N!maxIdRegion
    <3>3. Len(cafs) <= N!maxIdRegion
      BY <3>1 DEF N!RegionsFit
    <3>4. t.region = 0 \/ t.region \in 1..Len(cafs)
      BY <1>3, <3>1 DEF Opened
    <3>5. QED
      BY <3>1, <3>2, <3>3, <3>4
  <2>11. Layered'
    <3>1. ASSUME NEW n \in 1..(l - 1)
          PROVE  Opened(cafs', stack'[n].region) /\ Sits(stack', n)
      <4>1. n \in 1..l /\ n \in Nat \ {0} /\ \A k \in 1..n : stack'[k] = stack[k]
        BY <1>2, <2>6
      <4>2. Opened(cafs, stack[n].region) /\ Sits(stack, n) /\ stack'[n] = stack[n]
        BY <1>2, <2>6, <4>1 DEF NestInv, Layered
      <4>3. QED
        BY <2>1, <4>1, <4>2, SitsStill
    <3>2. Sits(stack', l)
      <4>1. l > 1 => l - 1 \in 1..(l - 1)
        BY <1>2
      <4>2. \A m \in 1..(l - 1) : stack[m].sup \in Nat
        <5>1. \A m \in 1..(l - 1) : m \in 1..l
          BY <1>2
        <5>2. QED
          BY <1>2, <5>1, NestTypes DEF NestInv
      <4>3. \A m \in 1..(l - 1) : stack'[m].region = g.region => stack'[m].sup <= g.sup
        BY <1>2, <1>3, <2>2, <2>6, <4>2 DEF Sits
      <4>4. QED
        BY <1>2, <1>3, <2>2, <2>6, <2>9, <4>1, <4>3 DEF Sits
    <3>3. QED
      BY <1>3, <2>1, <2>2, <2>6, <2>8, <3>1, <3>2 DEF Layered
  <2>12. Behind'
    <3>0. \A m \in 1..a, n \in 1..l : stack[n].region = RegionOf(minted[m].id) =>
            \/ minted[m].id < stack[n].sup
            \/ \E p \in (n + 1)..l : stack[p].region = stack[n].region
      BY <1>2, <2>4 DEF NestInv, Behind, l
    <3>1. ASSUME NEW m \in 1..a, NEW n \in 1..l,
                 stack'[n].region = RegionOf(minted[m].id)
          PROVE  \/ minted[m].id < stack'[n].sup
                 \/ \E p \in (n + 1)..l : stack'[p].region = stack'[n].region
      <4>1. CASE n = l
        <5>1. minted[m].id < t.sup /\ minted[m].id \in Nat
          BY <1>2, <2>2, <2>4, <2>6, <3>1, <4>1
        <5>2. minted[m].id < g.sup
          BY <2>2, <5>1
        <5>3. QED
          BY <2>6, <4>1, <5>2
      <4>2. CASE n \in 1..(l - 1)
        <5>1. n \in 1..l /\ stack'[n] = stack[n]
          BY <1>2, <2>6, <4>2
        <5>2. \/ minted[m].id < stack[n].sup
              \/ \E p \in (n + 1)..l : stack[p].region = stack[n].region
          BY <3>0, <3>1, <5>1
        <5>3. \A p \in (n + 1)..l : stack'[p].region = stack[p].region
          <6>1. \A p \in (n + 1)..l : p \in 1..l
            BY <1>2
          <6>2. QED
            BY <1>2, <2>2, <2>6, <2>8, <6>1
        <5>4. QED
          BY <5>1, <5>2, <5>3
      <4>3. QED
        BY <2>8, <4>1, <4>2
    <3>2. ASSUME NEW n \in 1..l, stack'[n].region = RegionOf(t.sup)
          PROVE  \/ t.sup < stack'[n].sup
                 \/ \E p \in (n + 1)..l : stack'[p].region = stack'[n].region
      <4>1. CASE n = l
        BY <2>2, <2>6, <4>1
      <4>2. CASE n \in 1..(l - 1)
        <5>1. l \in (n + 1)..l
          BY <1>2, <4>2
        <5>2. QED
          BY <2>2, <2>6, <2>9, <3>2, <5>1
      <4>3. QED
        BY <2>8, <4>1, <4>2
    <3>3. \A m \in 1..a : /\ Opened(cafs, RegionOf(minted[m].id))
                          /\ RegionOf(minted[m].id) <= N!maxIdRegion
      BY <2>4 DEF NestInv, Behind
    <3>4. \A m \in 1..(a + 1) : /\ Opened(cafs, RegionOf(minted'[m].id))
                                /\ RegionOf(minted'[m].id) <= N!maxIdRegion
      BY <1>3, <2>3, <2>4, <2>8, <2>9, <2>10, <3>3
    <3>5. \A m \in 1..(a + 1), n \in 1..l :
            stack'[n].region = RegionOf(minted'[m].id) =>
              \/ minted'[m].id < stack'[n].sup
              \/ \E p \in (n + 1)..l : stack'[p].region = stack'[n].region
      BY <2>3, <2>4, <2>8, <3>1, <3>2
    <3>6. QED
      BY <2>1, <2>4, <2>6, <3>4, <3>5 DEF Behind
  <2>13. N!MintedOnce'
    <3>1. \A m \in 1..a : minted[m].id # t.sup
      BY <1>2, <2>2, <2>4, <2>9
    <3>2. QED
      BY <2>3, <2>4, <2>8, <3>1 DEF NestInv, N!MintedOnce
  <2>14. Owned'
    <3>1. ASSUME NEW n \in 1..l, NEW x \in stack'[n].cells \cup stack'[n].chans
          PROVE  \E m \in 1..(a + 1) : minted'[m].id = x /\ minted'[m].drive = stack'[n].drive
      <4>1. a + 1 \in 1..(a + 1) /\ \A m \in 1..a : m \in 1..(a + 1)
        BY <2>4
      <4>2. CASE n = l
        <5>1. x = t.sup \/ x \in t.cells \cup t.chans
          BY <2>2, <2>6, <3>1, <4>2
        <5>2. x \in t.cells \cup t.chans =>
                \E m \in 1..a : minted[m].id = x /\ minted[m].drive = t.drive
          BY <1>2, <2>4, <2>8 DEF NestInv, Owned
        <5>3. QED
          BY <2>2, <2>3, <2>4, <2>6, <4>1, <4>2, <5>1, <5>2
      <4>3. CASE n \in 1..(l - 1)
        <5>1. \E m \in 1..a : minted[m].id = x /\ minted[m].drive = stack[n].drive
          BY <1>2, <2>4, <2>6, <3>1, <4>3 DEF NestInv, Owned
        <5>2. QED
          BY <2>4, <2>6, <4>1, <4>3, <5>1
      <4>4. QED
        BY <2>8, <4>2, <4>3
    <3>2. \A n \in 1..l : \A x \in stack'[n].cells \cup stack'[n].chans :
            \E m \in 1..(a + 1) : minted'[m].id = x /\ minted'[m].drive = stack'[n].drive
      BY <3>1
    <3>3. DOMAIN minted' = 1..(a + 1) /\ DOMAIN stack' = 1..l
      BY <2>4, <2>6
    <3>4. QED
      BY <3>2, <3>3 DEF Owned
  <2>15. QED
    BY <2>7, <2>11, <2>12, <2>13, <2>14 DEF NestInv
<1>6. QED
  BY <1>4, <1>5

(* A foreign handle stops the run.                                         *)
LEMMA UseForeignStep ==
  ASSUME NestInv, NEW h, N!UseForeign(h)
  PROVE  NestInv'
<1>1. stack # <<>> /\ nstatus # "start" /\ nstatus' # "start"
      /\ UNCHANGED <<cafs, stack, drives, minted>>
  BY DEF N!UseForeign, N!InDrive, N!Running
<1>2. QED
  BY <1>1 DEF NestInv, NestShape, Layered, Behind, N!MintedOnce, Owned, N!RegionsFit

(* The caller of a drive goes on with the supply handed back.              *)
LEMMA ReturnDriveStep == NestInv /\ N!ReturnDrive => NestInv'
<1> SUFFICES ASSUME NestInv, N!ReturnDrive PROVE NestInv'
  OBVIOUS
<1> DEFINE l == Len(stack)  t == N!Top  b == N!Below
           g == [stack[l - 1] EXCEPT !.sup = t.sup]
<1>1. /\ stack # <<>> /\ t.drive # 0 /\ nstatus # "start"
      /\ UNCHANGED <<cafs, drives, minted, nstatus>>
      /\ stack' = [b EXCEPT ![Len(b)].sup = t.sup]
  BY DEF N!ReturnDrive, N!InDrive, N!Running, N!SupplyBack
<1>2. /\ l \in Nat \ {0} /\ DOMAIN stack = 1..l /\ t = stack[l] /\ t \in Context
      /\ \A m \in DOMAIN minted :
           RegionOf(minted[m].id) = t.region => minted[m].id < t.sup
  BY <1>1, TopAhead
<1>3. Opened(cafs, t.region) /\ Sits(stack, l)
  BY <1>2 DEF NestInv, Layered
<1>4. l > 1 /\ stack[l - 1].region = t.region
  BY <1>1, <1>2, <1>3 DEF Sits
<1>5. /\ b \in Seq(Context) /\ Len(b) = l - 1 /\ DOMAIN b = 1..(l - 1)
      /\ \A n \in 1..(l - 1) : b[n] = stack[n] /\ stack[n] \in Context
  BY <1>1, <1>2, <1>4 DEF NestInv, NestShape, N!Below
<1> HIDE DEF b
<1>6. l - 1 \in 1..(l - 1) /\ l - 1 \in Nat \ {0}
  BY <1>2, <1>4
<1>7. /\ g \in Context /\ g.sup = t.sup /\ g.region = t.region
      /\ g.drive = stack[l - 1].drive
      /\ g.cells = stack[l - 1].cells /\ g.chans = stack[l - 1].chans
  BY <1>2, <1>4, <1>5, <1>6 DEF Context
<1>8. stack' = [b EXCEPT ![l - 1] = g]
  BY <1>1, <1>5, <1>6
<1> HIDE DEF g
<1>9. /\ stack' \in Seq(Context) /\ DOMAIN stack' = 1..(l - 1) /\ Len(stack') = l - 1
      /\ stack'[l - 1] = g /\ \A n \in 1..(l - 2) : stack'[n] = stack[n]
  BY <1>5, <1>6, <1>7, <1>8
<1>10. NestShape'
  BY <1>1, <1>9 DEF NestInv, NestShape, N!RegionsFit
<1> HIDE DEF l, t
<1>11. /\ \A n \in 1..(l - 1) : n = l - 1 \/ n \in 1..(l - 2)
       /\ \A n \in 1..(l - 1) : n \in 1..l
       /\ \A n \in 1..(l - 2) : n \in 1..(l - 1)
       /\ \A n \in 1..((l - 1) - 1) : n \in 1..(l - 2)
  BY <1>2, <1>4
<1>12. Layered'
  <2>1. ASSUME NEW n \in 1..(l - 2)
        PROVE  Opened(cafs', stack'[n].region) /\ Sits(stack', n)
    <3>1. n \in 1..l /\ n \in Nat \ {0} /\ \A k \in 1..n : stack'[k] = stack[k]
      BY <1>2, <1>9, <1>11
    <3>2. Opened(cafs, stack[n].region) /\ Sits(stack, n) /\ stack'[n] = stack[n]
      BY <1>2, <1>9, <3>1 DEF NestInv, Layered
    <3>3. QED
      BY <1>1, <3>1, <3>2, SitsStill
  <2>2. Sits(stack, l - 1)
    BY <1>2, <1>6, <1>11 DEF NestInv, Layered
  <2>3. RegionOf(g.sup) = g.region
    BY <1>2, <1>3, <1>7 DEF Sits
  <2>4. \A m \in 1..((l - 1) - 1) : stack'[m].region = g.region => stack'[m].sup <= g.sup
    BY <1>2, <1>3, <1>7, <1>9, <1>11 DEF Sits
  <2>5. (l - 1) > 1 => (l - 1) - 1 \in 1..(l - 2)
    BY <1>2
  <2>6. Sits(stack', l - 1)
    BY <1>4, <1>7, <1>9, <1>11, <2>2, <2>3, <2>4, <2>5 DEF Sits
  <2>7. QED
    BY <1>1, <1>3, <1>7, <1>9, <1>11, <2>1, <2>6 DEF Layered
<1>13. Behind'
  <2> SUFFICES ASSUME NEW m \in DOMAIN minted, NEW n \in 1..(l - 1),
                      stack'[n].region = RegionOf(minted[m].id)
               PROVE  \/ minted[m].id < stack'[n].sup
                      \/ \E p \in (n + 1)..(l - 1) : stack'[p].region = stack'[n].region
    BY <1>1, <1>9 DEF NestInv, Behind
  <2>1. CASE n = l - 1
    BY <1>2, <1>7, <1>9, <2>1
  <2>2. CASE n \in 1..(l - 2)
    <3>1. n \in 1..l /\ stack'[n] = stack[n] /\ l - 1 \in (n + 1)..(l - 1)
      BY <1>2, <1>9, <1>11, <2>2
    <3>2. \/ minted[m].id < stack[n].sup
          \/ \E p \in (n + 1)..l : stack[p].region = stack[n].region
      BY <1>2, <3>1 DEF NestInv, Behind, l
    <3>3. ASSUME NEW p \in (n + 1)..l, stack[p].region = stack[n].region
          PROVE  \E q \in (n + 1)..(l - 1) : stack'[q].region = stack'[n].region
      <4>1. CASE p = l
        BY <1>2, <1>7, <1>9, <3>1, <3>3, <4>1
      <4>2. CASE p = l - 1
        BY <1>4, <1>7, <1>9, <3>1, <3>3, <4>2
      <4>3. CASE p \in (n + 1)..(l - 2)
        <5>1. p \in 1..(l - 2) /\ p \in (n + 1)..(l - 1)
          BY <1>2, <4>3
        <5>2. QED
          BY <1>9, <3>1, <3>3, <5>1
      <4>4. p = l \/ p = l - 1 \/ p \in (n + 1)..(l - 2)
        BY <1>2
      <4>5. QED
        BY <4>1, <4>2, <4>3, <4>4
    <3>4. QED
      BY <3>1, <3>2, <3>3
  <2>3. QED
    BY <1>11, <2>1, <2>2
<1>14. Owned'
  <2>1. ASSUME NEW n \in 1..(l - 1)
        PROVE  /\ stack'[n].drive = stack[n].drive /\ stack'[n].cells = stack[n].cells
               /\ stack'[n].chans = stack[n].chans
    BY <1>7, <1>9, <1>11
  <2>2. QED
    BY <1>1, <1>2, <1>9, <1>11, <2>1 DEF NestInv, Owned
<1>15. QED
  BY <1>1, <1>10, <1>12, <1>13, <1>14 DEF NestInv, N!MintedOnce

(* An entry leaves, and with it the last context of its region.            *)
LEMMA ReturnEntryStep == NestInv /\ N!ReturnEntry => NestInv'
<1> SUFFICES ASSUME NestInv, N!ReturnEntry PROVE NestInv'
  OBVIOUS
<1> DEFINE l == Len(stack)  t == N!Top
<1>1. /\ stack # <<>> /\ t.drive = 0 /\ nstatus # "start" /\ nstatus' # "start"
      /\ UNCHANGED <<drives, minted>> /\ stack' = N!Below
  BY DEF N!ReturnEntry, N!Running
<1>2. /\ l \in Nat \ {0} /\ DOMAIN stack = 1..l /\ t = stack[l] /\ t \in Context
  BY <1>1, TopAhead
<1>3. Sits(stack, l)
  BY <1>2 DEF NestInv, Layered
<1>4. \A n \in 1..(l - 1) : stack[n].region # t.region
  BY <1>1, <1>2, <1>3 DEF Sits
<1>5. /\ stack' \in Seq(Context) /\ DOMAIN stack' = 1..(l - 1) /\ Len(stack') = l - 1
      /\ \A n \in 1..(l - 1) : stack'[n] = stack[n]
  BY <1>1, <1>2 DEF NestInv, NestShape, N!Below
<1>6. /\ cafs' \in Seq({"thunk", "forcing", "value"}) /\ Len(cafs') = Len(cafs)
      /\ DOMAIN cafs' = DOMAIN cafs
      /\ \A k \in DOMAIN cafs : cafs'[k] = cafs[k] \/ cafs'[k] = "value"
  <2>1. \/ cafs' = cafs
        \/ cafs' = [k \in DOMAIN cafs |-> IF k = t.region THEN "value" ELSE cafs[k]]
    BY DEF N!ReturnEntry
  <2>2. cafs \in Seq({"thunk", "forcing", "value"})
    BY DEF NestInv, NestShape
  <2>3. QED
    BY <2>1, <2>2
<1>7. NestShape'
  BY <1>1, <1>5, <1>6 DEF NestInv, NestShape, N!RegionsFit
<1> HIDE DEF l, t
<1>8. \A r : Opened(cafs, r) => Opened(cafs', r)
  BY <1>6 DEF Opened
<1>9. \A n \in 1..(l - 1) : n \in 1..l
  BY <1>2
<1>10. Layered'
  <2>1. ASSUME NEW n \in 1..(l - 1)
        PROVE  Opened(cafs', stack'[n].region) /\ Sits(stack', n)
    <3>1. n \in Nat \ {0} /\ \A k \in 1..n : stack'[k] = stack[k]
      BY <1>2, <1>5
    <3>2. Opened(cafs, stack[n].region) /\ Sits(stack, n) /\ stack'[n] = stack[n]
      BY <1>2, <1>5, <1>9 DEF NestInv, Layered
    <3>3. QED
      BY <1>8, <3>1, <3>2, SitsStill
  <2>2. QED
    BY <1>5, <2>1 DEF Layered
<1>11. Behind'
  <2> SUFFICES ASSUME NEW m \in DOMAIN minted, NEW n \in 1..(l - 1),
                      stack[n].region = RegionOf(minted[m].id)
               PROVE  \/ minted[m].id < stack[n].sup
                      \/ \E p \in (n + 1)..(l - 1) : stack'[p].region = stack[n].region
    BY <1>1, <1>5, <1>8 DEF NestInv, Behind
  <2>1. \/ minted[m].id < stack[n].sup
        \/ \E p \in (n + 1)..l : stack[p].region = stack[n].region
    BY <1>2, <1>9 DEF NestInv, Behind, l
  <2>2. \A p \in (n + 1)..l : p = l \/ (p \in (n + 1)..(l - 1) /\ p \in 1..(l - 1))
    BY <1>2
  <2>3. QED
    BY <1>2, <1>4, <1>5, <2>1, <2>2
<1>12. Owned'
  BY <1>1, <1>2, <1>5, <1>9 DEF NestInv, Owned
<1>13. QED
  BY <1>1, <1>7, <1>10, <1>11, <1>12 DEF NestInv, N!MintedOnce

(* Every step of the program keeps the invariant.                          *)
LEMMA NestStep == NestInv /\ [N!Next]_nvars => NestInv'
<1> SUFFICES ASSUME NestInv, [N!Next]_nvars PROVE NestInv'
  OBVIOUS
<1>1. CASE N!RunModule
  BY <1>1, RunModuleStep
<1>2. CASE N!RunConc
  BY <1>2, RunConcStep
<1>3. ASSUME NEW kind \in {"fiber", "promise", "channel"}, N!Mint(kind) PROVE NestInv'
  BY <1>3, MintStep
<1>4. ASSUME NEW n \in DOMAIN minted, N!UseForeign(minted[n]) PROVE NestInv'
  BY <1>4, UseForeignStep
<1>5. CASE N!ReturnDrive
  BY <1>5, ReturnDriveStep
<1>6. ASSUME NEW k \in DOMAIN cafs, N!ForceCaf(k) PROVE NestInv'
  BY <1>6, ForceCafStep
<1>7. CASE N!ReturnEntry
  BY <1>7, ReturnEntryStep
<1>8. CASE UNCHANGED nvars
  BY <1>8 DEF nvars, NestInv, NestShape, Layered, Behind, N!MintedOnce, Owned,
     N!RegionsFit
<1>9. QED
  BY <1>1, <1>2, <1>3, <1>4, <1>5, <1>6, <1>7, <1>8 DEF N!Next

(* The invariant, on every behaviour of the program's schedulers.          *)
THEOREM ProgramNests == SSpec => []NestInv
<1>1. SInit => NestInv
  BY NestInit DEF SInit
<1>2. [SNext]_<<vars, nvars, part>> => [N!Next]_nvars
  BY DEF SNext, nvars
<1>3. QED
  BY <1>1, <1>2, NestStep, PTL DEF SSpec

(* No id is minted twice in a run of the program, whichever schedulers and *)
(* constants mint, every id fits the word, and supplies keep to their      *)
(* regions.                                                                *)
THEOREM IdsUnique == SSpec => []MintedOnce
<1>1. NestInv => N!MintedOnce
  BY DEF NestInv
<1>2. NestInv => N!SupplyInRegion
  <2> SUFFICES ASSUME NestInv PROVE N!SupplyInRegion
    OBVIOUS
  <2>1. \A m \in DOMAIN minted : minted[m].id \in Nat
    BY NestTypes DEF NestInv
  <2>2. \A m \in DOMAIN minted : minted[m].id < Word
    BY <2>1, RegionFits DEF NestInv, Behind
  <2>3. ASSUME NEW n \in DOMAIN stack, NEW m \in 1..n,
               stack[m].region = stack[n].region
        PROVE  stack[m].sup <= stack[n].sup
    <3>1. stack[n].sup \in Nat /\ n \in Nat
      BY NestTypes DEF NestInv
    <3>2. m = n \/ m \in 1..(n - 1)
      BY <3>1
    <3>3. Sits(stack, n)
      BY DEF NestInv, Layered
    <3>4. QED
      BY <2>3, <3>1, <3>2, <3>3 DEF Sits
  <2>4. \A n \in DOMAIN stack : stack[n].sup \div NestBound = stack[n].region
    BY DEF NestInv, Layered, Sits, RegionOf
  <2>5. QED
    BY <2>2, <2>3, <2>4 DEF N!SupplyInRegion
<1>3. QED
  BY <1>1, <1>2, ProgramNests, PTL DEF MintedOnce

(* A scheduler serves only the handles it minted itself.                   *)
THEOREM MinterServes == SSpec => []ServedByMinter
<1>1. NestInv => ServedByMinter
  BY DEF NestInv, Owned, N!MintedOnce, ServedByMinter, N!ServedByMinter, N!Serves
<1>2. QED
  BY <1>1, ProgramNests, PTL
===============================================================================
