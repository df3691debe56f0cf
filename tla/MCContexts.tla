----------------------------- MODULE MCContexts -----------------------------
EXTENDS Contexts

\* An empty queue and one of two songs.
MCQueues == {<<>>, <<1, 2>>}

=============================================================================
