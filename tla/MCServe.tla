------------------------------ MODULE MCServe ------------------------------
EXTENDS Serve

MCLoads == {{"feeds"}, {"health"}}
=============================================================================
