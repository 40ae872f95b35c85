---------------------------- MODULE MCHookInstall ----------------------------
(***************************************************************************)
(* Plans of hook calls for HookInstall.  near is within reach of a branch, *)
(* far and odd are not, odd needs the alignment NOP.  Callers write nothing*)
(* that another caller or an installer reads, so the run takes one.        *)
(***************************************************************************)
EXTENDS HookInstall, TLC

CONSTANTS near, far, odd, i1, i2, cbA, cbB, cbC, cbD, cbE, cbF

MCFuncs == {near, far, odd}
MCFar == {far, odd}
MCMisaligned == {odd}

Tramp(f, cb) == [fn |-> f, cb |-> cb, kind |-> "tramp"]
Replace(f, cb) == [fn |-> f, cb |-> cb, kind |-> "replace"]
Inline(f, cb) == [fn |-> f, cb |-> cb, kind |-> "inline"]

Plan(first, second) == i1 :> first @@ i2 :> second

\* Chains on every kind of function, with a replacement in the middle.
Chains == Plan(<<Tramp(far, cbA), Tramp(odd, cbB), Tramp(far, cbC), Tramp(near, cbD),
                 Replace(odd, cbE), Tramp(odd, cbF)>>, <<>>)

\* Near hooks put in one on top of the other.
Live == Plan(<<Tramp(near, cbA), Tramp(near, cbB), Replace(near, cbC), Tramp(near, cbD)>>, <<>>)

\* Two threads, each with functions of its own.
Parallel == Plan(<<Tramp(far, cbA), Tramp(far, cbB)>>, <<Tramp(near, cbC), Tramp(odd, cbD)>>)

\* Inline hooks on fresh functions, and a hook on top of one.
Inlines == Plan(<<Inline(far, cbA), Inline(near, cbB), Tramp(far, cbC), Inline(odd, cbD)>>, <<>>)

\* The two at once: an inline hook under a hook and a replacement.
Mixed == Plan(<<Inline(far, cbA), Tramp(far, cbB), Replace(far, cbE)>>,
              <<Tramp(near, cbC), Tramp(odd, cbD), Replace(near, cbF)>>)

\* One hook more than the pool and the place behind it have room for.
Full == Plan(<<Tramp(far, cbA), Tramp(near, cbB), Tramp(odd, cbC), Tramp(near, cbD),
               Tramp(far, cbE), Tramp(odd, cbF)>>, <<>>)

MCPlans == {Chains, Live, Parallel, Inlines, Mixed, Full}

ASSUME PlansAreOrderly == Orderly
=============================================================================
