-------------------------- MODULE MCManifestChecks --------------------------
EXTENDS ManifestChecks, TLC

CONSTANTS parent, volume, sub, other, config

\* /var/lib/postgresql, its data, data/pgdata, and a path elsewhere.
Containers == {parent, volume, sub, other}
Nesting == parent :> {parent} @@ volume :> {parent, volume}
             @@ sub :> {parent, volume, sub} @@ other :> {other}

\* A database on its VOLUME with a second claim elsewhere, one that was redirected
\* there, and one with no claim at all.
At(claims) == [p \in Containers |-> IF p \in claims THEN "claim" ELSE "none"]
Databases ==
  {[mounts |-> At({volume, other}), redirect |-> Default, refs |-> {}, emits |-> {config}],
   [mounts |-> At({other}), redirect |-> other, refs |-> {config}, emits |-> {config}],
   [mounts |-> At({}), redirect |-> Default, refs |-> {}, emits |-> {}]}

=============================================================================
