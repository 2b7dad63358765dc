------------------------ MODULE MCNotificationOutbox ------------------------
EXTENDS NotificationOutbox, TLC

\* One minute is less than a tick or one, five minutes one or two.
MCBackoff == <<{0, 1}, {1, 2}>>

MCSymmetry == Permutations(Items) \cup Permutations(Workers)

MCWorkerSymmetry == Permutations(Workers)

=============================================================================
