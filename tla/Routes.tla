------------------------------- MODULE Routes -------------------------------
(***************************************************************************)
(* The operations of /api/v1: for each of them the hooks that run before   *)
(* the handler, in the order in which the route file lists them.  The      *)
(* bodies of the handlers (parsing, one call of a service, the reply) are  *)
(* the steps Execute, completeIdempotency and failIdempotency of Requests. *)
(***************************************************************************)
EXTENDS Sequences

Org == [need |-> "organization"]
Any(codes) == [need |-> "permission", codes |-> codes]
Owner == [need |-> "owner"]
PlatformOwner == [need |-> "platform owner"]
OptionalAuth == [need |-> "optional session"]
StepUp(purpose) == [need |-> "step-up", purpose |-> purpose]
Limit(bucket) == [need |-> "limit", bucket |-> bucket]

\* An idempotency key; the handler of KeyOnly neither completes nor fails it.
Key == [need |-> "key", settled |-> TRUE]
KeyOnly == [need |-> "key", settled |-> FALSE]

Route(method, path, hooks) == [method |-> method, path |-> path, hooks |-> hooks]

-----------------------------------------------------------------------------
SessionRoutes == {
    Route("GET", "/health", <<>>),
    Route("GET", "/health/ready", <<>>),
    Route("GET", "/platform/runtime", <<>>),
    Route("GET", "/metrics", <<>>),
    Route("POST", "/auth/register", <<Limit("auth.register")>>),
    Route("POST", "/auth/login", <<Limit("auth.login")>>),
    Route("POST", "/auth/mfa/verify", <<Limit("auth.mfa")>>)}

AccountRoutes == {
    Route("POST", "/auth/logout", <<>>),
    Route("GET", "/auth/me", <<>>),
    Route("POST", "/auth/mfa/enable", <<>>),
    Route("GET", "/organizations/current", <<
      Org, Any({"org.read", "platform.admin", "platform.support"})>>),
    Route("PATCH", "/organizations/current", <<Org, Any({"org.manage", "platform.admin"})>>),
    Route("GET", "/organizations/:organizationId", <<
      Any({"org.read", "platform.admin", "platform.support"})>>)}

OrganizationRoutes == {
    Route("GET", "/organizations/:organizationId/members", <<
      Any({"users.read", "users.manage", "platform.admin"})>>),
    Route("GET", "/audit-events", <<Org, Any({"audit.read", "platform.admin"})>>),
    Route("GET", "/security-events", <<Org, Any({"security.read", "platform.admin"})>>),
    Route("GET", "/secrets/references", <<
      Org, Any({"security.manage", "platform.admin", "providers.manage"})>>),
    Route("POST", "/secrets/references", <<
      Org, Any({"security.manage", "platform.admin", "providers.manage"})>>)}

PasswordAndInvitationRoutes == {
    Route("POST", "/auth/verify-email", <<Limit("auth.email_verification")>>),
    Route("POST", "/auth/resend-verification", <<Limit("auth.email_verification")>>),
    Route("POST", "/auth/password/forgot", <<Limit("auth.password_reset")>>),
    Route("POST", "/auth/password/reset", <<Limit("auth.password_reset"), Key>>),
    Route("POST", "/auth/password/change", <<StepUp("SENSITIVE"), Key>>),
    Route("POST", "/auth/mfa/step-up", <<>>),
    Route("POST", "/invitations/accept", <<OptionalAuth, Key>>)}

MemberRoutes == {
    Route("POST", "/organizations/:organizationId/invitations", <<
      Org, Any({"invites.manage", "users.manage", "users.invite"}), StepUp("users.invite"),
      Limit("users.invite"), Key>>),
    Route("GET", "/organizations/:organizationId/invitations", <<
      Any({"invites.manage", "users.read", "platform.admin"})>>),
    Route("POST", "/organizations/:organizationId/invitations/:invitationId/revoke", <<
      Owner, Any({"invites.manage", "users.manage", "platform.admin"}), StepUp("SENSITIVE")>>),
    Route("POST", "/organizations/:organizationId/users/:userId/deactivate", <<
      Owner, Any({"users.deactivate", "users.manage", "platform.admin"}), StepUp("SENSITIVE")>>),
    Route("POST", "/organizations/:organizationId/users/:userId/reactivate", <<
      Owner, Any({"users.deactivate", "users.manage", "platform.admin"}), StepUp("SENSITIVE")>>),
    Route("POST", "/organizations/:organizationId/users/:userId/remove", <<
      Owner, Any({"users.remove", "users.manage", "platform.admin"}), StepUp("SENSITIVE")>>)}

PlatformUserRoutes == {
    Route("POST", "/auth/mfa/totp-request", <<Limit("auth.mfa")>>),
    Route("GET", "/platform/mfa-totp-requests", <<
      Any({"platform.users.manage", "platform.admin"})>>),
    Route("POST", "/platform/mfa-totp-requests/:requestId/approve", <<
      PlatformOwner, Any({"platform.users.manage", "platform.admin"}), StepUp("SENSITIVE")>>),
    Route("POST", "/platform/mfa-totp-requests/:requestId/deny", <<
      PlatformOwner, Any({"platform.users.manage", "platform.admin"}), StepUp("SENSITIVE")>>),
    Route("GET", "/platform/users", <<Any({"platform.users.read", "platform.admin"})>>),
    Route("GET", "/platform/invitations", <<Any({"platform.users.read", "platform.admin"})>>),
    Route("POST", "/platform/invitations", <<
      Any({"platform.users.manage", "platform.admin"}), StepUp("platform.users.invite"),
      Limit("users.invite"), Key>>),
    Route("POST", "/platform/invitations/:invitationId/revoke", <<
      PlatformOwner, Any({"platform.users.manage", "platform.admin"}), StepUp("SENSITIVE")>>),
    Route("POST", "/platform/users/:userId/deactivate", <<
      PlatformOwner, Any({"platform.users.manage", "platform.admin"}), StepUp("SENSITIVE")>>),
    Route("GET", "/error-reports", <<Org, Any({"errors.read", "platform.admin"})>>)}

MasterDataRoutes == {
    Route("GET", "/master-data/types", <<
      Any({"org.read", "masterdata.manage", "platform.admin", "platform.support"})>>),
    Route("GET", "/master-data/:type", <<
      Any({"org.read", "masterdata.manage", "platform.admin", "platform.support"})>>),
    Route("POST", "/master-data/:type", <<Any({"masterdata.manage"})>>),
    Route("PATCH", "/master-data/:type/:code", <<Any({"masterdata.manage"})>>),
    Route("POST", "/master-data/:type/:code/{action}", <<Any({"masterdata.manage"})>>),
    Route("GET", "/merchant/profile", <<Org, Any({"merchant.read"})>>)}

MerchantProfileRoutes == {
    Route("PUT", "/merchant/profile", <<Org, Any({"merchant.manage"})>>),
    Route("PUT", "/merchant/legal-profile", <<Org, Any({"merchant.manage"})>>),
    Route("PUT", "/merchant/business-profile", <<Org, Any({"merchant.manage"})>>)}

PeopleRoutes == {
    Route("POST", "/merchant/{path}", <<Org, Any({"merchant.manage"})>>),
    Route("POST", "/merchant/{path}/:personId/remove", <<Org, Any({"merchant.manage"})>>)}

DocumentRoutes == {
    Route("GET", "/merchant/documents", <<Org, Any({"documents.read"})>>),
    Route("POST", "/merchant/documents", <<Org, Any({"documents.manage"})>>),
    Route("POST", "/merchant/documents/:documentId/archive", <<Org, Any({"documents.manage"})>>),
    Route("POST", "/merchant/documents/upload-intent", <<Org, Any({"documents.manage"})>>),
    Route("PUT", "/merchant/documents/:documentId/content", <<Org, Any({"documents.manage"})>>),
    Route("GET", "/merchant/documents/:documentId/content", <<Org, Any({"documents.read"})>>),
    Route("GET", "/merchant/kyb", <<Org, Any({"kyb.read"})>>),
    Route("GET", "/merchant/onboarding-gate", <<Org>>),
    Route("POST", "/merchant/kyb/submit", <<Org, Any({"kyb.submit"}), Key>>)}

BankAccountRoutes == {
    Route("GET", "/merchant/bank-accounts", <<Org, Any({"bank.read"})>>),
    Route("GET", "/merchant/bank-accounts/:accountId", <<Org, Any({"bank.read"})>>),
    Route("POST", "/merchant/bank-accounts", <<
      Org, Any({"bank.manage"}), StepUp("SENSITIVE"), Key>>),
    Route("POST", "/merchant/bank-accounts/:accountId/activate", <<
      Org, Any({"bank.manage"}), StepUp("bank.account.activate"), Key>>),
    Route("POST", "/merchant/bank-accounts/:accountId/deactivate", <<
      Org, Any({"bank.manage"}), StepUp("bank.account.activate"), Key>>),
    Route("POST", "/merchant/bank-accounts/:accountId/set-default", <<
      Org, Any({"bank.manage"}), StepUp("bank.account.set_default")>>)}

ReviewRoutes == {
    Route("GET", "/admin/kyb/cases", <<Any({"kyb.review"})>>),
    Route("GET", "/admin/kyb/cases/:caseId", <<Any({"kyb.review"})>>),
    Route("POST", "/admin/kyb/cases/:caseId/start-review", <<Any({"kyb.review"})>>),
    Route("POST", "/admin/kyb/cases/:caseId/request-information", <<Any({"kyb.review"})>>),
    Route("POST", "/admin/kyb/cases/:caseId/decision", <<
      Any({"kyb.review"}), StepUp("SENSITIVE"), Key>>),
    Route("POST", "/admin/kyb/cases/:caseId/suspend", <<Any({"kyb.review"}), StepUp("SENSITIVE")>>),
    Route("POST", "/admin/documents/:documentId/review", <<Any({"kyb.review"})>>),
    Route("GET", "/admin/documents/:documentId/content", <<Any({"kyb.review"})>>),
    Route("GET", "/admin/bank-accounts", <<Any({"bank.review", "platform.admin"})>>),
    Route("GET", "/admin/bank-accounts/:accountId", <<Any({"bank.review", "platform.admin"})>>),
    Route("POST", "/admin/bank-accounts/:accountId/verification/start", <<
      Any({"bank.review", "platform.admin"})>>),
    Route("POST", "/admin/bank-accounts/:accountId/verification/decision", <<
      Any({"bank.review", "platform.admin"}), StepUp("SENSITIVE"), Key>>),
    Route("POST", "/admin/bank-accounts/:accountId/activate", <<
      Any({"bank.review", "platform.admin"}), StepUp("bank.account.activate"), Key>>)}

PaymentLinkRoutes == {
    Route("GET", "/merchant/payment-config", <<
      Org, Any({"payment_config.read"}), Limit("payments.read")>>),
    Route("PUT", "/merchant/payment-config", <<Org, Any({"payment_config.manage"})>>),
    Route("GET", "/merchant/payment-links", <<
      Org, Any({"payment_links.read"}), Limit("payments.read")>>),
    Route("POST", "/merchant/payment-links", <<
      Org, Any({"payment_links.manage"}), Limit("payment_links.write"), Key>>),
    Route("GET", "/merchant/payment-links/:linkId", <<Org, Any({"payment_links.read"})>>)}

LinkActionRoutes == {
    Route("PATCH", "/merchant/payment-links/:linkId", <<Org, Any({"payment_links.manage"})>>),
    Route("POST", "/merchant/payment-links/:linkId/{action}", <<
      Org, Any({"payment_links.manage"}), KeyOnly>>)}

MerchantPaymentRoutes == {
    Route("GET", "/merchant/dashboard/summary", <<
      Org, Any({"payments.read", "platform.admin", "platform.support"}), Limit("payments.read")>>),
    Route("GET", "/merchant/payments/readiness", <<
      Org, Any({"payments.read", "org.read"}), Limit("payments.read")>>),
    Route("GET", "/merchant/transactions", <<Org, Any({"payments.read"}), Limit("payments.read")>>),
    Route("GET", "/merchant/payments", <<Org, Any({"payments.read"}), Limit("payments.read")>>),
    Route("GET", "/merchant/payments/:paymentId", <<Org, Any({"payments.read"})>>),
    Route("POST", "/merchant/payments/:paymentId/cancel", <<
      Org, Any({"payments.cancel", "payments.manage"}), Key>>)}

CheckoutRoutes == {
    Route("POST", "/checkout/stripe/sync", <<Limit("checkout.payment"), Key>>),
    Route("GET", "/checkout/:token", <<Limit("checkout.read")>>),
    Route("POST", "/checkout/:token/session", <<Limit("checkout.session"), Key>>),
    Route("GET", "/checkout/:token/session", <<Limit("checkout.read")>>),
    Route("POST", "/checkout/:token/payment", <<Limit("checkout.payment"), Key>>)}

ProviderRoutes == {
    Route("GET", "/providers", <<
      Org, Any({"providers.read", "platform.admin"}), Limit("providers.read")>>),
    Route("GET", "/providers/:code/capabilities", <<
      Org, Any({"providers.read", "platform.admin"}), Limit("providers.read")>>),
    Route("GET", "/provider-accounts", <<
      Org, Any({"providers.read", "platform.admin"}), Limit("providers.read")>>),
    Route("GET", "/provider-routes", <<
      Org, Any({"providers.read", "platform.admin"}), Limit("providers.read")>>),
    Route("POST", "/provider-routes", <<
      Org, Any({"providers.manage", "platform.admin"}), StepUp("providers.credentials"),
      Limit("providers.read")>>),
    Route("POST", "/merchant/provider-accounts", <<
      Org, Any({"providers.manage", "platform.admin"}), StepUp("providers.credentials"),
      Limit("providers.read")>>),
    Route("GET", "/provider-webhooks", <<
      Org, Any({"webhooks.read", "platform.admin"}), Limit("providers.read")>>)}

WebhookEndpointRoutes == {
    Route("GET", "/merchant/webhook-endpoints", <<
      Org, Any({"webhooks.read", "webhooks.manage", "developer.read", "platform.admin"}),
      Limit("providers.read")>>),
    Route("POST", "/merchant/webhook-endpoints", <<
      Org, Any({"webhooks.manage", "platform.admin"}), Limit("payment_links.write")>>),
    Route("PATCH", "/merchant/webhook-endpoints/:id", <<
      Org, Any({"webhooks.manage", "platform.admin"}), Limit("payment_links.write")>>),
    Route("GET", "/merchant/webhook-deliveries", <<
      Org, Any({"webhooks.read", "webhooks.manage", "developer.read", "platform.admin"}),
      Limit("providers.read")>>),
    Route("POST", "/merchant/webhook-deliveries/:deliveryId/retry", <<
      Org, Any({"webhooks.manage", "platform.admin"}), Limit("payment_links.write")>>),
    Route("GET", "/merchant/webhook-event-types", <<
      Org, Any({"webhooks.read", "webhooks.manage", "developer.read", "platform.admin"})>>)}

ApiKeyRoutes == {
    Route("GET", "/api-keys", <<
      Org, Any({"api_keys.read", "platform.admin"}), Limit("api_keys.manage")>>),
    Route("POST", "/api-keys", <<
      Org, Any({"api_keys.manage", "platform.admin"}), StepUp("api_keys.create"),
      Limit("api_keys.manage")>>),
    Route("POST", "/api-keys/:id/revoke", <<
      Org, Any({"api_keys.manage", "platform.admin"}), StepUp("api_keys.revoke"),
      Limit("api_keys.manage")>>),
    Route("POST", "/webhooks/providers/:providerCode", <<Limit("webhooks.ingress")>>)}

CustomerRoutes == {
    Route("GET", "/customers", <<
      Org, Any({"customers.read", "billing.manage", "platform.admin"}), Limit("payments.read")>>),
    Route("POST", "/customers", <<
      Org, Any({"customers.manage", "billing.manage", "platform.admin"}), Key,
      Limit("payment_links.write")>>),
    Route("GET", "/customers/:id", <<
      Org, Any({"customers.read", "billing.manage", "platform.admin"}), Limit("payments.read")>>),
    Route("PATCH", "/customers/:id", <<
      Org, Any({"customers.manage", "billing.manage", "platform.admin"}),
      Limit("payment_links.write")>>),
    Route("GET", "/customers/:id/payments", <<
      Org, Any({"customers.read", "payments.read", "billing.manage", "platform.admin"}),
      Limit("payments.read")>>)}

CatalogRoutes == {
    Route("GET", "/products", <<Org, Any({"products.read", "billing.manage", "platform.admin"})>>),
    Route("POST", "/products", <<
      Org, Any({"products.manage", "billing.manage", "platform.admin"}), Key>>),
    Route("GET", "/prices", <<Org, Any({"prices.read", "billing.manage", "platform.admin"})>>),
    Route("POST", "/prices", <<
      Org, Any({"prices.manage", "billing.manage", "platform.admin"}), Key>>),
    Route("GET", "/subscriptions", <<
      Org, Any({"subscriptions.read", "billing.manage", "platform.admin"})>>)}

SubscriptionRoutes == {
    Route("POST", "/subscriptions", <<
      Org, Any({"subscriptions.create", "subscriptions.manage", "billing.manage",
      "platform.admin"}), Key>>),
    Route("POST", "/subscriptions/:id/pause", <<
      Org, Any({"subscriptions.pause", "subscriptions.manage", "billing.manage",
      "platform.admin"}), Key>>),
    Route("POST", "/subscriptions/:id/resume", <<
      Org, Any({"subscriptions.resume", "subscriptions.manage", "billing.manage",
      "platform.admin"}), Key>>),
    Route("POST", "/subscriptions/:id/cancel", <<
      Org, Any({"subscriptions.cancel", "subscriptions.manage", "billing.manage",
      "platform.admin"}), Key>>)}

InvoiceRoutes == {
    Route("GET", "/invoices", <<Org, Any({"invoices.read", "billing.manage", "platform.admin"})>>),
    Route("GET", "/invoices/:id", <<
      Org, Any({"invoices.read", "billing.manage", "platform.admin"})>>),
    Route("POST", "/invoices/:id/collect", <<
      Org, Any({"invoices.pay", "invoices.manage", "billing.manage", "platform.admin"}),
      StepUp("invoices.collect"), Key, Limit("checkout.payment")>>),
    Route("POST", "/billing/renewals/run", <<
      Org, Any({"billing.manage", "platform.admin"}), StepUp("billing.renewals.run"), Key>>)}

RoleRoutes == {
    Route("GET", "/rbac/permissions", <<
      Org, Any({"roles.read", "users.read", "org.read", "platform.admin"})>>),
    Route("GET", "/rbac/sensitive-operations", <<
      Org, Any({"roles.read", "security.read", "platform.admin"})>>),
    Route("GET", "/rbac/roles", <<
      Org, Any({"roles.read", "users.read", "org.read", "platform.admin"})>>),
    Route("POST", "/rbac/roles", <<Org, Any({"roles.manage"}), StepUp("roles.custom.manage"), Key>>),
    Route("PUT", "/rbac/roles/:roleId/permissions", <<
      Org, Any({"roles.manage"}), StepUp("roles.custom.manage"), Key>>),
    Route("DELETE", "/rbac/roles/:roleId", <<
      Org, Any({"roles.manage"}), StepUp("roles.custom.manage")>>),
    Route("POST", "/rbac/users/:userId/assign-role", <<
      Org, Any({"roles.manage", "users.manage"}), StepUp("roles.assign"), Key>>)}

RefundAndStatementRoutes == {
    Route("GET", "/refunds", <<Org, Any({"payments.refund", "payments.manage", "platform.admin"})>>),
    Route("GET", "/refunds/:id", <<
      Org, Any({"payments.refund", "payments.manage", "platform.admin"})>>),
    Route("POST", "/refunds", <<
      Org, Any({"payments.refund", "payments.manage", "platform.admin"}),
      StepUp("payments.refund"), Key, Limit("payment_links.write")>>),
    Route("GET", "/balances", <<Org, Any({"balances.read", "platform.admin", "platform.finance"})>>),
    Route("GET", "/merchant/finance/statement", <<
      Org, Any({"reports.read", "balances.read", "settlements.read", "platform.finance"})>>),
    Route("GET", "/payments/:id/fees", <<
      Org, Any({"payments.read", "reports.read", "platform.finance"})>>)}

FeeScheduleRoutes == {
    Route("GET", "/fee-schedules", <<
      Org, Any({"settlements.read", "platform.admin", "platform.finance"})>>),
    Route("POST", "/fee-schedules", <<
      Org, Any({"platform.admin", "platform.finance"}), StepUp("SENSITIVE"), Key>>),
    Route("POST", "/fee-schedules/preview", <<
      Org, Any({"settlements.read", "platform.admin", "platform.finance"})>>),
    Route("GET", "/ledger/accounts", <<
      Org, Any({"balances.read", "platform.admin", "platform.finance"})>>),
    Route("GET", "/ledger/entries", <<
      Org, Any({"balances.read", "platform.admin", "platform.finance"})>>),
    Route("GET", "/settlements", <<
      Org, Any({"settlements.read", "settlements.manage", "platform.admin",
      "platform.finance"})>>)}

SettlementRoutes == {
    Route("GET", "/settlements/:id", <<
      Org, Any({"settlements.read", "settlements.manage", "platform.admin",
      "platform.finance"})>>),
    Route("POST", "/settlements", <<
      Org, Any({"settlements.manage", "platform.admin", "platform.finance"}),
      StepUp("settlements.manage"), Key>>),
    Route("POST", "/settlements/:id/finalize", <<
      Org, Any({"settlements.manage", "platform.admin", "platform.finance"}),
      StepUp("settlements.finalize"), Key>>),
    Route("POST", "/settlements/:id/cancel", <<
      Org, Any({"settlements.manage", "platform.admin", "platform.finance"}),
      StepUp("settlements.cancel"), Key>>),
    Route("GET", "/payouts", <<
      Org, Any({"payouts.read", "payouts.manage", "platform.admin", "platform.finance"})>>)}

PayoutRoutes == {
    Route("GET", "/payouts/:id", <<
      Org, Any({"payouts.read", "payouts.manage", "platform.admin", "platform.finance"})>>),
    Route("POST", "/payouts", <<
      Org, Any({"payouts.manage", "platform.admin", "platform.finance"}),
      StepUp("payouts.manage"), Key>>),
    Route("POST", "/payouts/:id/submit", <<
      Org, Any({"payouts.manage", "platform.admin", "platform.finance"}),
      StepUp("payouts.submit"), Key>>),
    Route("POST", "/payouts/:id/approve", <<
      Org, Any({"platform.admin", "platform.finance", "payouts.manage"}),
      StepUp("payouts.mark_paid"), Key>>)}

PayoutEndRoutes == {
    Route("POST", "/payouts/:id/mark-paid", <<
      Org, Any({"payouts.manage", "platform.admin", "platform.finance"}),
      StepUp("payouts.mark_paid"), Key>>),
    Route("POST", "/payouts/:id/fail", <<
      Org, Any({"payouts.manage", "platform.admin", "platform.finance"}), StepUp("payouts.fail"),
      Key>>),
    Route("POST", "/payouts/:id/cancel", <<
      Org, Any({"payouts.manage", "platform.admin", "platform.finance"}),
      StepUp("payouts.cancel"), Key>>),
    Route("GET", "/reconciliation/runs", <<
      Org, Any({"settlements.read", "balances.read", "platform.admin", "platform.finance"})>>),
    Route("POST", "/reconciliation/runs", <<
      Org, Any({"settlements.manage", "platform.admin", "platform.finance"})>>),
    Route("GET", "/risk/signals", <<
      Org, Any({"disputes.read", "platform.risk.manage", "platform.admin"})>>)}

RiskRoutes == {
    Route("POST", "/risk/signals", <<
      Org, Any({"disputes.manage", "platform.risk.manage", "platform.admin"})>>),
    Route("GET", "/disputes", <<Org, Any({"disputes.read", "disputes.manage", "platform.admin"})>>),
    Route("POST", "/disputes", <<Org, Any({"disputes.manage", "platform.admin"})>>),
    Route("GET", "/providers/:code/capability-profile", <<
      Org, Any({"providers.read", "developer.read", "platform.admin"})>>),
    Route("GET", "/books/sync-state", <<
      Org, Any({"books.read", "integrations.read", "platform.admin"})>>)}

PlatformOrganizationRoutes == {
    Route("GET", "/platform/organizations", <<
      Any({"platform.organizations.read", "platform.admin", "platform.support"}),
      Limit("providers.read")>>),
    Route("GET", "/platform/organizations/:organizationId", <<
      Any({"platform.organizations.read", "platform.admin", "platform.support"})>>),
    Route("PATCH", "/platform/organizations/:organizationId/status", <<
      Any({"platform.organizations.manage", "platform.admin"}),
      StepUp("platform.organization.status"), Limit("payment_links.write")>>),
    Route("PATCH", "/platform/organizations/:organizationId/settings", <<
      Any({"platform.organizations.manage", "platform.admin"}), Limit("payment_links.write")>>),
    Route("GET", "/platform/organizations/:organizationId/payments", <<
      Any({"platform.organizations.read", "platform.admin", "platform.support",
      "platform.payments.read"}), Limit("providers.read")>>),
    Route("GET", "/platform/system/health", <<
      Any({"platform.system.manage", "platform.admin", "platform.support"})>>)}

PlatformOperationRoutes == {
    Route("GET", "/platform/webhook-deliveries", <<
      Any({"webhooks.manage", "platform.admin", "platform.support", "platform.payments.read"}),
      Limit("providers.read")>>),
    Route("POST", "/platform/webhook-deliveries/:deliveryId/retry", <<
      Any({"webhooks.manage", "platform.admin", "platform.support"}),
      Limit("payment_links.write")>>),
    Route("POST", "/platform/webhook-deliveries/retry-failed", <<
      Any({"webhooks.manage", "platform.admin", "platform.support"}),
      Limit("payment_links.write")>>),
    Route("GET", "/platform/audit-events", <<
      Any({"platform.audit_logs.read", "platform.admin", "platform.support"}),
      Limit("providers.read")>>),
    Route("GET", "/platform/security-events", <<
      Any({"platform.audit_logs.read", "platform.admin", "platform.support"}),
      Limit("providers.read")>>),
    Route("GET", "/platform/error-reports", <<
      Any({"platform.audit_logs.read", "platform.admin", "platform.support"}),
      Limit("providers.read")>>)}

AllRoutes ==
  SessionRoutes \cup AccountRoutes \cup OrganizationRoutes \cup PasswordAndInvitationRoutes
  \cup MemberRoutes \cup PlatformUserRoutes \cup MasterDataRoutes \cup
  MerchantProfileRoutes \cup PeopleRoutes \cup DocumentRoutes \cup BankAccountRoutes \cup
  ReviewRoutes \cup PaymentLinkRoutes \cup LinkActionRoutes \cup MerchantPaymentRoutes
  \cup CheckoutRoutes \cup ProviderRoutes \cup WebhookEndpointRoutes \cup ApiKeyRoutes
  \cup CustomerRoutes \cup CatalogRoutes \cup SubscriptionRoutes \cup InvoiceRoutes \cup
  RoleRoutes \cup RefundAndStatementRoutes \cup FeeScheduleRoutes \cup SettlementRoutes
  \cup PayoutRoutes \cup PayoutEndRoutes \cup RiskRoutes \cup PlatformOrganizationRoutes
  \cup PlatformOperationRoutes
=============================================================================
