------------------------- MODULE MCArticleLifecycle -------------------------
(* ArticleLifecycle for TLC.                                               *)
EXTENDS ArticleLifecycle
=============================================================================
