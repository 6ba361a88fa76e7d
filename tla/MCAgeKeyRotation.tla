-------------------------- MODULE MCAgeKeyRotation --------------------------
EXTENDS AgeKeyRotation, TLC

AllSteps == Steps

\* What rotate-age-key prints and the script's header asks for, word for word:
\* nothing tells the operator to bring other branches up to date, or to compare
\* the revision Flux reports with main.
PrintedSteps == Steps \ {"rebase", "revision"}

=============================================================================
