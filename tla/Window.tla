------------------------------- MODULE Window -------------------------------
(***************************************************************************)
(* Retention windows: which tags of an image a node keeps (config.rs).     *)
(*                                                                         *)
(* Tags are numbers, ordered like the strings of the code.  A mode is a    *)
(* number too: Full stands for Mode::Full, n > 0 for Mode::Last(n), and    *)
(* Mode::Latest is 1.                                                      *)
(***************************************************************************)
EXTENDS Integers, FiniteSets

CONSTANT Tag  \* the tags, a set of numbers

Full == 0

\* A window: keep everything, keep the `last` newest tags, keep these tags.
WindowOver(tags) == [full : BOOLEAN, last : Nat, tags : SUBSET tags]

\* Policy::window: the modes of every matching rule combine to the widest
\* window, tagged seeds and pins add their tags.
WindowOf(modes, tags) ==
  [full |-> Full \in modes,
   last |-> CHOOSE n \in modes \cup {0} : \A m \in modes : n >= m,
   tags |-> tags]

\* No rule names the image: what is held of it is cache.
IsEmpty(w) == ~w.full /\ w.last = 0 /\ w.tags = {}

\* What is known of an image: pairs of a tag and a timestamp.  The order of
\* Window::select is the newest first and, within a second, the greater tag.
Newer(p, q) == p.ts > q.ts \/ (p.ts = q.ts /\ p.tag > q.tag)

TagsOf(known) == {p.tag : p \in known}

\* Mutant of Deduped: nothing is dropped.
DedupedNot(known) == known

\* dedup_by on the sorted pairs: one goes if the pair right before it has its
\* tag.  Two pairs of one tag with another tag's pair between them both stay.
Deduped(known) ==
  {p \in known :
     ~ \E q \in known :
         /\ q.tag = p.tag
         /\ Newer(q, p)
         /\ \A r \in known : ~(Newer(q, r) /\ Newer(r, p))}

\* The first n of the sorted pairs.
Take(n, known) == {p \in known : Cardinality({q \in known : Newer(q, p)}) < n}

\* Window::select: the tags inside the window.
Select(w, known) ==
  w.tags \cup TagsOf(IF w.full THEN known ELSE Take(w.last, Deduped(known)))

-----------------------------------------------------------------------------
\* The reference that Select is compared with.

\* The newest pair of every tag.
Latest(known) ==
  {p \in known : \A q \in known : q.tag = p.tag => ~Newer(q, p)}

\* The fixed tags and, of all the tags that are known, the `last` newest.
InWindow(w, known) ==
  w.tags \cup TagsOf(IF w.full THEN known ELSE Take(w.last, Latest(known)))

\* One pair for each tag, as in a store.
Single(known) == \A p, q \in known : p.tag = q.tag => p = q
=============================================================================
