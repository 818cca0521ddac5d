-------------------------- MODULE MCContentReleases --------------------------
\* Small instances of ContentReleases.
EXTENDS ContentReleases

CONSTANTS s1, t1

\* One skill is shipped.
MCCatalog == [s \in {s1} |-> [text |-> t1, version |-> 1]]
=============================================================================
