---------------------------- MODULE MCWebhookSync ----------------------------
EXTENDS WebhookSync, TLC

CONSTANTS app, private, r1, r2

\* `private` comes from a repository that GITHUB_TOKEN may not administer; the
\* path of `app` names that one too, so `app` is annotated with its own.
TwoImages == {app, private}
TwoSources == app :> r1 @@ private :> r2
OneAnnotated == app :> r1 @@ private :> NoRepo
OnePath == app :> r2 @@ private :> r2

=============================================================================
