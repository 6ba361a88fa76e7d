------------------------ MODULE MCRegistryPasswords ------------------------
EXTENDS RegistryPasswords

\* A repository that uses both secrets and one that uses the mirror's, with both
\* stores of one secret: --secret and --repo select different sets.
TwoSecrets ==
  {<<"ci", "r1", "actions">>, <<"mirror", "r1", "actions">>, <<"mirror", "r2", "actions">>}

=============================================================================
