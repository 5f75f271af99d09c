---------------------------- MODULE MCBundleBuild ----------------------------
EXTENDS BundleBuild, TLC

Symmetric == Permutations(Slugs) \cup Permutations(Builders)
=============================================================================
