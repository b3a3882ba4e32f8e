--------------------------- MODULE MCAdministration ---------------------------
EXTENDS Administration

Tour(pages, does, messages, offered, refreshes, moves, writes) ==
    [pages |-> pages, does |-> does, messages |-> messages,
     templates |-> offered, polls |-> refreshes,
     moves |-> moves, writes |-> writes]

OneMessage == {CHOOSE m \in Message : TRUE}
OneTemplate == {CHOOSE k \in Template : TRUE}

MCTours ==
    {Tour({"settings"}, {"maintain"}, Message, {}, TRUE, 1, 2),
     Tour({"settings"}, {"maintain", "configure"}, OneMessage, {}, TRUE, 1, 2),
     Tour({"settings"}, {"maintain", "deleteTemplate"}, OneMessage, OneTemplate, TRUE, 0, 2),
     Tour({"settings"}, {"createTemplate", "updateTemplate", "deleteTemplate"},
          {}, OneTemplate, FALSE, 1, 2),
     Tour({"projects"}, {"createProject", "updateTemplate", "deleteTemplate"},
          {}, Template, FALSE, 1, 2),
     Tour({"projects"}, {"createProject", "maintain"}, OneMessage, OneTemplate, TRUE, 0, 2)}
=============================================================================
