CONSTANTS
  k1 = k1
  k2 = k2
  k3 = k3
  root = root
  ann = ann
  bea = bea
  p1 = p1
  p2 = p2
  Nobody = Nobody
  Calls <- MCCalls
  Emails <- MCEmails
  Passwords <- MCPasswords
  Admins <- MCAdmins
  AdminEmail <- MCAdminEmail
  AdminPassword <- MCAdminPassword
  Failures <- MCAll

SPECIFICATION Spec

SYMMETRY MCSymmetry

INVARIANT OneAccountPerEmail
INVARIANT CredentialsWork
INVARIANT OnlyAdminsCreate
INVARIANT ServerErrorsProvoked
