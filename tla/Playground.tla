----------------------------- MODULE Playground -----------------------------
(***************************************************************************)
(* The playground: a form with an environment of its own, a choice of the  *)
(* flags, a context, and the results of the last evaluation.  How the      *)
(* environment follows the provider's, and when the flags are selected, is *)
(* part of Workspace, since answers and the header bring it about.         *)
(*                                                                         *)
(* A context is one of two objects or not valid; error messages are left   *)
(* out, and with them the evaluations that the page no longer waits for.   *)
(***************************************************************************)
EXTENDS Workspace

Text == {"default", "changed", "invalid"}

AtPlayground == at # ProjectList /\ at.page = "playground"

\* evaluate.reset()
Without(form) == [form EXCEPT !.evaluation = None]

\* A change of the form that fetches nothing.
Edit(form) ==
    /\ AtPlayground /\ play' = form
    /\ UNCHANGED <<at, back, stored, envKey, server, cache, dialog, issued, write, tour>>

\* Mutant of EditText: the results stay.
EditTextOnly(text) == text # play.text /\ Edit([play EXCEPT !.text = text])

EditText(text) == text # play.text /\ Edit([Without(play) EXCEPT !.text = text])

\* A value of a field goes into a context that is an object.
AddContextValue ==
    LET fields == QueryKey("context-fields", at.project, None)
    IN  /\ AtPlayground /\ play.text # "invalid"
        /\ cache[fields].data # None /\ Rows(cache[fields].data) # {}
        /\ Edit([Without(play) EXCEPT !.text = "changed"])

\* The options are the flags that are loaded, and all are chosen or none.
SelectFlags(env) ==
    /\ AtPlayground /\ play.env # None /\ env \in {None, play.env} \ {play.selected}
    /\ LET flags == cache[QueryKey("flags", at.project, play.env)].data
       IN  flags # None /\ Rows(flags) # {}
    /\ Edit([play EXCEPT !.selected = env])

SelectEvaluationEnvironment(e) ==
    /\ AtPlayground /\ tour.moves > 0
    /\ Environments # None /\ e \in Rows(Environments) /\ e # play.env
    /\ Render(envKey, cache, [Without(play) EXCEPT !.env = e, !.selected = None])
    /\ tour' = [tour EXCEPT !.moves = @ - 1]
    /\ UNCHANGED <<at, back, stored, server, dialog, issued, write>>

IsEvaluating == play.evaluation # None /\ play.evaluation.status = "pending"

Evaluate ==
    /\ AtPlayground /\ play.env # None /\ play.text # "invalid"
    /\ ~ IsEvaluating
    /\ Edit([play EXCEPT !.evaluation =
                [status |-> "pending", env |-> play.env, text |-> play.text]])

Evaluated == IsEvaluating /\ Edit([play EXCEPT !.evaluation.status = "success"])

\* An error leaves nothing but its message.
EvaluationFails == IsEvaluating /\ Edit(Without(play))

=============================================================================
