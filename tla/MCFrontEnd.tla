----------------------------- MODULE MCFrontEnd ------------------------------
(* The passes of the C front end, each on inputs of its own: Init picks the *)
(* pass, the others stay idle.  Model values for operators and names, which *)
(* are interchangeable.                                                    *)
EXTENDS WokLayout, TLC, SequencesExt

CONSTANTS
  Ops, MaxDecls, MaxRels, MaxChain,               \* see WokFixity
  Names, MaxScopes, MaxBinders, MaxHandlers,      \* see WokScope
  Sources, Parses, Canonical(_), Inodes, MaxSaves, MaxRuns   \* see WokWrite

ASSUME WriteAssumption ==
  /\ "torn" \notin Sources /\ Parses \subseteq Sources
  /\ \A t \in Parses : Canonical(t) \in Parses
  /\ {1, 2} \subseteq Inodes /\ Inodes \subseteq Nat \ {0}
  /\ MaxSaves \in Nat /\ MaxRuns \in Nat

VARIABLES part,
  text, i, col, pending, tabbed, toks, coms, scanFaults,
  file, comStage, tree, target, prev, rounds,
  stage, decls, known, assoc, declAt, order, next, rings, chain,
  env, frame, nframe, initb, scopes, trail,
  input, stream, at, sep, panic, bare, todo, kept,
  dir, disk, fm, saves, missed

scanVars   == <<text, i, col, pending, tabbed, toks, coms, scanFaults>>
triviaVars == <<file, comStage, tree, target, prev, rounds>>
fixityVars == <<stage, decls, known, assoc, declAt, order, next, rings, chain>>
scopeVars  == <<env, frame, nframe, initb, scopes, trail>>
parseVars  == <<input, stream, at, sep, panic, bare, todo, kept>>
writeVars  == <<dir, disk, fm, saves, missed>>
allVars    == <<part, vars, scanVars, triviaVars, fixityVars, scopeVars, parseVars, writeVars>>

\* Texts of the core characters to length 5, of all of them to length 3.
CoreChars == {"space", "newline", "dash", "symbol", "lbrace", "rbrace", "string", "backslash"}
AllChars  == CoreChars \cup {"tab", "letter", "x", "underscore", "digit", "char", "dot", "stray"}
Texts     == BoundedSeq(CoreChars, 5) \cup BoundedSeq(AllChars, 3)

\* Texts to be reformatted, with one canonical form.
Saved   == {"loose", "ragged", "tidy", "broken"}
Tidy(t) == "tidy"

Scan   == INSTANCE WokScan WITH faults <- scanFaults
Trivia == INSTANCE WokTrivia WITH MaxItems <- 3, MaxComments <- 2, Columns <- {1, 3},
            Owners <- {"none", "self", "inner", "where", "paren"},
            text <- file, stage <- comStage
Fixity == INSTANCE WokFixity
Scope  == INSTANCE WokScope WITH MaxDepth <- MaxScopes, stack <- scopes
Programs == INSTANCE MCPrograms
Parse  == INSTANCE WokParse WITH Inputs <- Programs!Damaged, MaxNest <- 8,
            i <- at, layFaults <- faults
Write  == INSTANCE WokWrite WITH Formatters <- {"f"}

FInit ==
  /\ part \in {"scan", "layout", "parse", "comments", "fixity", "scope", "write"}
  /\ IF part = "scan" THEN Scan!Init ELSE text = <<>> /\ Scan!Begin
  /\ IF part = "parse" THEN Parse!Init ELSE input = <<>> /\ Parse!Start
  /\ Init /\ Trivia!Init /\ Fixity!Init /\ Scope!Init /\ Write!Init
  /\ part # "write" => disk[1].text = CHOOSE t \in Sources : TRUE

FNext ==
  /\ UNCHANGED part
  /\ \/ part = "scan" /\ Scan!Next
        /\ UNCHANGED <<vars, triviaVars, fixityVars, scopeVars, parseVars, writeVars>>
     \/ part = "layout" /\ Next
        /\ UNCHANGED <<scanVars, triviaVars, fixityVars, scopeVars, parseVars, writeVars>>
     \/ part = "parse" /\ Parse!Next
        /\ UNCHANGED <<scanVars, triviaVars, fixityVars, scopeVars, writeVars>>
     \/ part = "comments" /\ Trivia!Next
        /\ UNCHANGED <<vars, scanVars, fixityVars, scopeVars, parseVars, writeVars>>
     \/ part = "fixity" /\ Fixity!Next
        /\ UNCHANGED <<vars, scanVars, triviaVars, scopeVars, parseVars, writeVars>>
     \/ part = "scope" /\ Scope!Next
        /\ UNCHANGED <<vars, scanVars, triviaVars, fixityVars, parseVars, writeVars>>
     \/ part = "write" /\ Write!Next
        /\ UNCHANGED <<vars, scanVars, triviaVars, fixityVars, scopeVars, parseVars>>

FSpec == FInit /\ [][FNext]_allVars

Symmetric == Permutations(Ops) \cup Permutations(Names)

\* Bound: how far the output of the filter runs ahead of, or behind, three per
\* token.
Window == part = "layout" => excess \in -4 .. 2

-----------------------------------------------------------------------------
(* The properties of the passes, under the names the runs give them.       *)

\* Tokens and comments tile the text (wok_token.c).
Tiled == Scan!Tiled
\* Columns and first-on-line marks are those of the text (wok_token.c).
PositionsExact == Scan!PositionsExact
\* No item passes the end of its block (block_end, resync_to_boundary).
BlocksHold == part = "parse" => Parse!BlocksHold
\* Damage reaches at most the next declaration (resync_decl, parse_file).
DeclsSurvive == part = "parse" => Parse!DeclsSurvive
\* No comment is lost, doubled or put out of order (wok_trivia.c, wok_print.c).
CommentsKept == Trivia!CommentsKept
\* What was printed is a fixed point, broken lines aside (wok_print.c).
FixedUnlessBroken == Trivia!FixedUnlessBroken
\* The table is that of the first declarations, and each circular order in it
\* is reported once (build_fixity, check_fixity_cycles).
TableRight == Fixity!TableRight /\ Fixity!RingsOnce
\* The check, the scan and the split rule agree (check_chain, find_loosest).
ShieldIsSplit == Fixity!ShieldIsSplit
\* A fault stands whatever other files declare (check_chain).
PartialIsHonest == Fixity!PartialIsHonest
\* A write is accepted exactly where its name means a slot (check_assign).
WritesAreLocal == Scope!WritesAreLocal
\* The path always holds a whole file (wok_write_atomic).
TargetWhole == Write!TargetWhole
\* An edit is lost only in the windows the stamp cannot see (wok_write_permitted).
EditsKept == Write!EditsKept
=============================================================================
