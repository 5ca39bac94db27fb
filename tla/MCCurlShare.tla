---------------------------- MODULE MCCurlShare ----------------------------
EXTENDS CurlShare
=============================================================================
