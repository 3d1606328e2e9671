----------------------------- MODULE MCWatcher -----------------------------
\* Watcher with a Claude agent (menu, limit, resume) or a Codex one (capacity,
\* goal), and an observation with nothing to act on.
EXTENDS Watcher, TLC

CONSTANTS menu, limit, resume, capacity, goal, quiet

Kind_MC == [e \in Evidence |->
               CASE e = menu     -> "menu"
                 [] e = limit    -> "limit"
                 [] e = resume   -> "resume"
                 [] e = capacity -> "capacity"
                 [] e = goal     -> "goal"
                 [] OTHER        -> "quiet"]
Screens_MC == Evidence \cap {menu, quiet}
Symmetry == Permutations(Jobs)
=============================================================================
