---------------------------- MODULE MCGithubFlow ----------------------------
\* A small instance of GithubFlow: its constants are model values of the cfg.
EXTENDS GithubFlow
=============================================================================
