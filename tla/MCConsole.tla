------------------------------ MODULE MCConsole ------------------------------
EXTENDS Console, TLC

Tour(pages, moves, writes) == [pages |-> pages, moves |-> moves, writes |-> writes]

MCTours ==
    {Tour({"playground"}, 2, 0), Tour({"playground"}, 1, 1), Tour({"flags"}, 2, 1),
     Tour({"flags", "environments"}, 1, 1), Tour({"overview", "parameters"}, 1, 1),
     Tour({"members"}, 0, 2), Tour({"contexts"}, 0, 2), Tour({"settings"}, 1, 2)}

Symmetry == Permutations(Project) \cup Permutations(Call)
=============================================================================
