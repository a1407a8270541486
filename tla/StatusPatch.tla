------------------------------ MODULE StatusPatch ------------------------------
(***************************************************************************)
(* What `Status().Patch(ctx, obj, client.MergeFrom(latest))` does to one   *)
(* status field.  All three reconcilers end in a patchStatus method that   *)
(* reads `latest` from the informer cache, diffs the object it computed    *)
(* against it and sends the difference as a JSON merge patch.  A list such *)
(* as status.conditions is one field of a merge patch.                     *)
(***************************************************************************)

\* The field of the object on the server after the patch: only a difference
\* from `latest` travels, so a field equal to it keeps what the server holds.
MergeField(server, latest, computed) ==
  IF computed # latest THEN computed ELSE server

===============================================================================
