----------------------------- MODULE MCFeedPage -----------------------------
EXTENDS FeedPage
=============================================================================
