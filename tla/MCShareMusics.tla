------------------------------ MODULE MCShareMusics ------------------------------
EXTENDS ShareMusics
=============================================================================
