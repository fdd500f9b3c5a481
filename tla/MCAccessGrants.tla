--------------------------- MODULE MCAccessGrants ---------------------------
\* Instances of AccessGrants for TLC.
EXTENDS AccessGrants
AllKinds == {"model", "offer", "secret", "jaas"}
OnlyModel == {"model"}
=============================================================================
