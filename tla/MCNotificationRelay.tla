-------------------------- MODULE MCNotificationRelay --------------------------
EXTENDS NotificationRelay
=============================================================================
